---- MODULE Spec2Model ----
(***************************************************************************)
(* Model of the mtproxy connection path:                                   *)
(*   src/mtproxy/handler.py   ConnectionHandler (admission policy,         *)
(*                            client records, session table, statistics)   *)
(*   src/mtproxy/protocol.py  MTProtoHandler (handshake, remote connect,   *)
(*                            bidirectional relay)                         *)
(* The program runs on one asyncio event loop: a coroutine runs without    *)
(* interruption until it awaits something that is not ready.  Each action  *)
(* below is one such run of one connection's task, from the point where it *)
(* was suspended to the next suspension.  The clients, the remote          *)
(* endpoints, the timers and the clock are the environment.                *)
(***************************************************************************)
EXTENDS Integers, FiniteSets, Sequences, TLC

\* ---------------------------------------------------------------- bounds
MaxConns == 3            \* connections that arrive in one run of the policy
MaxSessions == 2         \* connections that arrive in one run of the detailed path
TickStep == 20           \* seconds the clock advances in one Tick
MaxTime == 80            \* the clock stops advancing here
MaxClientBytes == 96     \* bytes one client sends at most
MaxRemoteBytes == 16     \* bytes one remote endpoint sends at most
RateLimit == 2           \* config 'rate_limit' (default 100), scaled down
MaxConnectionsPerIp == 2 \* config 'max_connections_per_ip' (default 10), scaled down
MaxByte == 2             \* the values 0..MaxByte a byte of a preamble takes
MaxLines == 3            \* lines of an overlay file
MaxBlocks == 2           \* 16-byte blocks of the data a cipher is given

\* ------------------------------------------------------ program constants
Window == 60               \* the rate-limit window in seconds
PreambleLen == 64          \* the handshake preamble
ResponseLen == 32          \* server nonce (16) followed by the secret (16)
ChunkSize == 8192          \* relay read size
NonceLen == 16             \* bytes of a nonce (secrets.token_bytes(16))
SecretLen == 16            \* bytes of the proxy secret
DigestLen == 32            \* bytes of a SHA-256 digest
DcHashLen == 16            \* bytes of the preamble that select the endpoint
DcCount == 5               \* endpoints the selection chooses among

Conns == 1..MaxConns
Sessions == 1..MaxSessions
\* One address needs 2 * RateLimit admissions to fill a window and the
\* start of the next one.
WindowConns == 1..(2 * RateLimit)
AllConns == Conns \cup WindowConns
IPs == {"ip1", "ip2"}
NoClient == [ip |-> "none"]
NoRet == [op |-> "none"]
Segments == {32, 64}       \* sizes of the segments a client delivers
RemoteSegments == {16}     \* sizes of the segments a remote endpoint delivers
Talkers == {1}             \* the connections whose client sends data

Min(a, b) == IF a < b THEN a ELSE b

VARIABLES
  config,             \* Config: the file, the dictionaries, the secret in use
  server,             \* MTProxyServer: how far stop() has come
  now,                \* time.time()
  clients,            \* ConnectionHandler.clients: ip -> ClientInfo
  blocked_ips,        \* ConnectionHandler.blocked_ips
  allowed_ips,        \* ConnectionHandler.allowed_ips
  active_connections, \* ConnectionHandler.active_connections: id -> ConnectionInfo
  connections,        \* MTProtoHandler.connections: id -> ConnectionInfo
  stats,              \* ConnectionHandler.stats
  task,               \* per connection: its handle_client task (position, outcome)
  cli,                \* per connection: the client socket (reader and writer)
  tg,                 \* per connection: the remote (Telegram) socket
  pump,               \* per connection: the two forward_data tasks
  ret                 \* what the administrative call of this step returned

vars == <<config, server, now, clients, blocked_ips, allowed_ips, active_connections,
          connections, stats, task, cli, tg, pump, ret>>

policyVars == <<clients, blocked_ips, allowed_ips, active_connections, stats>>
sockVars == <<cli, tg, pump>>

\* ------------------------------------------------------------ data types
\* handler.py: ClientInfo (port left out: nothing reads it)
ClientInfo(ip, t) ==
  [ip |-> ip, connect_time |-> t, last_seen |-> t, bytes_sent |-> 0,
   bytes_received |-> 0, connection_count |-> 1, blocked |-> FALSE,
   block_reason |-> ""]

\* protocol.py: ConnectionInfo (the fields the connection path uses)
ConnectionInfo(ip) ==
  [client_ip |-> ip, bytes_sent |-> 0, bytes_received |-> 0]

\* A task before its connection arrived.  verdict: what admission decided;
\* fail: why the session failed; at: when it was admitted; win: the start of
\* the rate-limit window it was counted in; path: the states of the session
\* life cycle it went through.
NewTask ==
  [ip |-> "none", pc |-> "idle", verdict |-> "none", fail |-> "none",
   at |-> -1, win |-> -1, path |-> <<>>]

\* sent: bytes the peer delivered; consumed: bytes the proxy read, of which
\* hs_consumed by the handshake; wrote: bytes the proxy wrote to the peer;
\* closed: writer.close() was called; unsent: the transport was closed with
\* written bytes the peer has not taken yet, so that wait_closed() waits.
NewClientSocket ==
  [sent |-> 0, eof |-> FALSE, consumed |-> 0, hs_consumed |-> 0,
   wrote |-> 0, responded |-> FALSE, closed |-> FALSE, unsent |-> FALSE]

NewRemoteSocket ==
  [opened |-> FALSE, attempts |-> 0, sent |-> 0, eof |-> FALSE, consumed |-> 0,
   wrote |-> 0, closed |-> FALSE, unsent |-> FALSE]

NewPumps == [c2t |-> "none", t2c |-> "none"]

\* ------------------------------------------------------------ Config
\* The keys of the 'server' section that are followed, and their values.
ServerKeys == {"secret", "timeout"}
Secrets == {"s1", "s2"}
Timeouts == {300, 60}

\* The 'server' section of Config.DEFAULT_CONFIG as the class body writes it.
BuiltinServer == [secret |-> "None", timeout |-> 300]

\* The 'server' sections a configuration file may hold: any of the keys.
ConfigFiles ==
  UNION {{[k \in S |-> IF k = "secret" THEN s ELSE t] : s \in Secrets, t \in Timeouts} :
           S \in SUBSET ServerKeys}

\* dict.copy() of a dictionary of sections: a new dictionary whose values are
\* the same section objects (section name -> index in dicts).
copy(d) == d

\* Config._deep_update(target, source) on the 'server' sections: both are
\* dictionaries, so the keys of the source are written into the target
\* object.
deep_update(target, source) ==
  [k \in ServerKeys |-> IF k \in DOMAIN source THEN source[k] ELSE target[k]]

\* Config.reload: the dictionary of sections is copied from DEFAULT_CONFIG,
\* the file is merged into it, and _validate_config generates and saves a
\* secret if there is none (no environment variable is set).
reload(cfg, generated) ==
  LET data == copy(cfg.DEFAULT_CONFIG)
      loaded == deep_update(cfg.dicts[data.server], cfg.file)
      valid == IF loaded.secret = "None" THEN [loaded EXCEPT !.secret = generated]
               ELSE loaded
  IN [cfg EXCEPT !.data = data,
                 !.dicts[data.server] = valid,
                 !.file = IF loaded.secret = "None" THEN valid ELSE @]

\* The configuration when the server is up: Config(config_file) has loaded a
\* file that holds a secret and the timeout, ConnectionHandler has taken its
\* copy of the 'server' section and MTProtoHandler, MTProtoCrypto and
\* ProxyAuth were built with the secret.
InitConfig ==
  LET first == [file |-> [secret |-> "s1", timeout |-> 300],
                dicts |-> <<BuiltinServer>>,
                DEFAULT_CONFIG |-> [server |-> 1],
                data |-> [server |-> 1],
                handler |-> "None", auth |-> "None"]
      loaded == reload(first, "s1")
  IN [loaded EXCEPT !.handler = loaded.dicts[loaded.data.server].secret,
                    !.auth = loaded.dicts[loaded.data.server].secret]

\* ------------------------------------------------------------------ Init
\* ConnectionHandler.__init__ with the configured banned_ips and allowed_ips.
Init ==
  /\ config = InitConfig
  /\ server = "running"
  /\ now = 0
  /\ clients = [ip \in IPs |-> NoClient]
  /\ blocked_ips \in {{}, {"ip1"}}
  /\ allowed_ips \in {{}, {"ip1"}}
  /\ active_connections = <<>>
  /\ connections = <<>>
  /\ stats = [total_connections |-> 0, active_connections |-> 0,
              blocked_connections |-> 0, total_bytes_sent |-> 0,
              total_bytes_received |-> 0]
  /\ task = [c \in AllConns |-> NewTask]
  /\ cli = [c \in AllConns |-> NewClientSocket]
  /\ tg = [c \in AllConns |-> NewRemoteSocket]
  /\ pump = [c \in AllConns |-> NewPumps]
  /\ ret = NoRet

\* ------------------------------------------------------- helper operators
Put(f, k, v) == [x \in (DOMAIN f) \cup {k} |-> IF x = k THEN v ELSE f[x]]
Drop(f, k) == [x \in (DOMAIN f) \ {k} |-> f[x]]

\* handler.py:140-141: the sessions registered for ip
ClientConnections(ip) ==
  Cardinality({id \in DOMAIN active_connections : active_connections[id].client_ip = ip})

\* ----------------------------------------------------- admission policy
\* ConnectionHandler._security_check, mutated: the allow-list is looked at
\* first and admits its members.
security_check_allow_first(ip) ==
  IF allowed_ips # {} /\ ip \in allowed_ips THEN "ok"
  ELSE IF ip \in blocked_ips THEN "deny"
  ELSE IF allowed_ips # {} /\ ip \notin allowed_ips THEN "whitelist"
  ELSE IF clients[ip] # NoClient /\ clients[ip].blocked THEN "flag"
  ELSE "ok"

\* ConnectionHandler._security_check: "ok" is the code's True, anything else
\* the reason it returned False for.
security_check(ip) ==
  IF ip \in blocked_ips THEN "deny"
  ELSE IF allowed_ips # {} /\ ip \notin allowed_ips THEN "whitelist"
  ELSE IF clients[ip] # NoClient /\ clients[ip].blocked THEN "flag"
  ELSE "ok"

\* handler.py:143, mutated: > for >=.
over_cap_off_by_one(n) == n > MaxConnectionsPerIp

\* handler.py:143: the per-IP cap is reached.
over_cap(n) == n >= MaxConnectionsPerIp

\* handler.py:153-154, mutated: > for >= in the count.
window_full_off_by_one(client) ==
  /\ now - client.connect_time < Window
  /\ client.connection_count > RateLimit

\* handler.py:151-154: the client's window is open and has reached the limit.
window_full(client) ==
  /\ now - client.connect_time < Window
  /\ client.connection_count >= RateLimit

\* ConnectionHandler._rate_limit_check, mutated: the window limit is looked
\* at before the per-IP cap.
rate_limit_check_window_first(ip) ==
  IF clients[ip] # NoClient /\ window_full(clients[ip]) THEN "rate"
  ELSE IF over_cap(ClientConnections(ip)) THEN "cap"
  ELSE "ok"

\* ConnectionHandler._rate_limit_check, without its call of _block_client:
\* "cap" is the per-IP connection cap, "rate" the window limit.
rate_limit_check(ip) ==
  IF over_cap(ClientConnections(ip)) THEN "cap"
  ELSE IF clients[ip] # NoClient /\ window_full(clients[ip]) THEN "rate"
  ELSE "ok"

\* ConnectionHandler._block_client: the client table after it (the caller
\* adds ip to blocked_ips).
block_client(cl, ip, reason) ==
  IF cl[ip] # NoClient
  THEN [cl EXCEPT ![ip].blocked = TRUE, ![ip].block_reason = reason]
  ELSE cl

\* ConnectionHandler._update_client_info, mutated: the connection is not
\* counted.
update_client_info_uncounted(cl, ip) ==
  IF cl[ip] = NoClient
  THEN [cl EXCEPT ![ip] = ClientInfo(ip, now)]
  ELSE [cl EXCEPT ![ip].last_seen = now]

\* ConnectionHandler._update_client_info: the client table after it.
update_client_info(cl, ip) ==
  IF cl[ip] = NoClient
  THEN [cl EXCEPT ![ip] = ClientInfo(ip, now)]
  ELSE LET counted == [cl[ip] EXCEPT !.last_seen = now,
                                     !.connection_count = @ + 1]
       IN IF now - counted.connect_time > Window
          THEN [cl EXCEPT ![ip] = [counted EXCEPT !.connect_time = now,
                                                  !.connection_count = 1]]
          ELSE [cl EXCEPT ![ip] = counted]

\* ConnectionHandler._close_connection: writer.close() unless already closing.
close_connection(sock) == [sock EXCEPT !.closed = TRUE]

\* ------------------------------------------------------------- actions
\* A connection from ip arrives and ConnectionHandler.handle_client runs from
\* its start to its first suspension: statistics, _security_check,
\* _rate_limit_check, and then either the close of a rejected connection
\* (suspended in wait_closed) or _update_client_info, _handle_connection
\* up to wait_for, which makes a task of MTProtoHandler.handle_connection and
\* suspends (the session is registered in active_connections).
\* Connection ids are handed out in the order of arrival.
handle_client(c, ip) ==
  /\ server = "running"
  /\ task[c].pc = "idle"
  /\ \A d \in AllConns : d < c => task[d].pc # "idle"
  /\ LET sec == security_check(ip)
         rl == rate_limit_check(ip)
         counted == [stats EXCEPT !.total_connections = @ + 1,
                                  !.active_connections = @ + 1]
         rejected == [counted EXCEPT !.blocked_connections = @ + 1]
     IN IF sec # "ok"
        THEN /\ stats' = rejected
             /\ cli' = [cli EXCEPT ![c] = close_connection(@)]
             /\ task' = [task EXCEPT ![c] =
                          [@ EXCEPT !.ip = ip, !.pc = "rej_closing", !.verdict = sec,
                                    !.fail = "policy",
                                    !.path = <<"Accepted", "Rejected">>]]
             /\ UNCHANGED <<clients, blocked_ips, active_connections, connections>>
        ELSE IF rl # "ok"
        THEN /\ stats' = rejected
             /\ IF rl = "rate"
                THEN /\ clients' = block_client(clients, ip, "Rate limit exceeded")
                     /\ blocked_ips' = blocked_ips \cup {ip}
                ELSE UNCHANGED <<clients, blocked_ips>>
             /\ cli' = [cli EXCEPT ![c] = close_connection(@)]
             /\ task' = [task EXCEPT ![c] =
                          [@ EXCEPT !.ip = ip, !.pc = "rej_closing", !.verdict = rl,
                                    !.fail = "policy",
                                    !.path = <<"Accepted", "Rejected">>]]
             /\ UNCHANGED <<active_connections, connections>>
        ELSE /\ stats' = counted
             /\ clients' = update_client_info(clients, ip)
             /\ active_connections' = Put(active_connections, c, ConnectionInfo(ip))
             /\ task' = [task EXCEPT ![c] =
                          [@ EXCEPT !.ip = ip, !.pc = "admitted", !.verdict = "admit",
                                    !.at = now,
                                    !.win = update_client_info(clients, ip)[ip].connect_time,
                                    !.path = <<"Accepted", "Admitted">>]]
             /\ UNCHANGED <<blocked_ips, cli, connections>>
  /\ ret' = NoRet
  /\ UNCHANGED <<config, server, now, allowed_ips, tg, pump>>

\* A connection arrives whose peer address cannot be read (the peer is gone
\* already): handle_client closes the socket and suspends in wait_closed,
\* before any statistics are touched (handler.py:64-68).
handle_client_nopeer(c) ==
  /\ server = "running"
  /\ task[c].pc = "idle"
  /\ \A d \in AllConns : d < c => task[d].pc # "idle"
  /\ cli' = [cli EXCEPT ![c] = close_connection(@)]
  /\ task' = [task EXCEPT ![c].pc = "nopeer_closing"]
  /\ ret' = NoRet
  /\ UNCHANGED <<config, server, now, policyVars, connections, tg, pump>>

\* handle_client of such a connection after wait_closed: the return.
NoPeerClosed(c) ==
  /\ task[c].pc = "nopeer_closing"
  /\ task' = [task EXCEPT ![c].pc = "done"]
  /\ ret' = NoRet
  /\ UNCHANGED <<config, server, now, policyVars, connections, sockVars>>

\* handle_client's finally block (handler.py:102-110).
handle_client_finally(c) ==
  /\ active_connections' = IF c \in DOMAIN active_connections
                           THEN Drop(active_connections, c)
                           ELSE active_connections
  /\ cli' = [cli EXCEPT ![c] = close_connection(@)]
  /\ task' = [task EXCEPT ![c].pc = "done"]

\* handle_client of a rejected connection after wait_closed, mutated: the
\* finally block does not count the connection down.
RejectClosed_uncounted(c) ==
  /\ task[c].pc = "rej_closing"
  /\ handle_client_finally(c)
  /\ ret' = NoRet
  /\ UNCHANGED <<config, server, now, clients, blocked_ips, allowed_ips, connections, tg, pump,
                 stats>>

\* handle_client of a rejected connection after wait_closed: the return and
\* the finally block.
RejectClosed(c) ==
  /\ task[c].pc = "rej_closing"
  /\ stats' = [stats EXCEPT !.active_connections = @ - 1]
  /\ handle_client_finally(c)
  /\ ret' = NoRet
  /\ UNCHANGED <<config, server, now, clients, blocked_ips, allowed_ips, connections, tg, pump>>

\* ConnectionHandler.unblock_client, mutated: the record keeps its flag.
unblock_client_keep_flag(ip) ==
  /\ IF ip \in blocked_ips
     THEN /\ blocked_ips' = blocked_ips \ {ip}
          /\ UNCHANGED clients
          /\ ret' = [op |-> "unblock_client", ip |-> ip, value |-> TRUE]
     ELSE /\ UNCHANGED <<blocked_ips, clients>>
          /\ ret' = [op |-> "unblock_client", ip |-> ip, value |-> FALSE]
  /\ UNCHANGED <<config, server, now, allowed_ips, active_connections, stats,
                 connections, task, sockVars>>

\* ConnectionHandler.unblock_client, mutated: the window is reset as well.
unblock_client_reset(ip) ==
  /\ IF ip \in blocked_ips
     THEN /\ blocked_ips' = blocked_ips \ {ip}
          /\ clients' = IF clients[ip] # NoClient
                        THEN [clients EXCEPT ![ip].blocked = FALSE,
                                             ![ip].block_reason = "",
                                             ![ip].connection_count = 1]
                        ELSE clients
          /\ ret' = [op |-> "unblock_client", ip |-> ip, value |-> TRUE]
     ELSE /\ UNCHANGED <<blocked_ips, clients>>
          /\ ret' = [op |-> "unblock_client", ip |-> ip, value |-> FALSE]
  /\ UNCHANGED <<config, server, now, allowed_ips, active_connections, stats,
                 connections, task, sockVars>>

\* ConnectionHandler.unblock_client
unblock_client(ip) ==
  /\ IF ip \in blocked_ips
     THEN /\ blocked_ips' = blocked_ips \ {ip}
          /\ clients' = IF clients[ip] # NoClient
                        THEN [clients EXCEPT ![ip].blocked = FALSE,
                                             ![ip].block_reason = ""]
                        ELSE clients
          /\ ret' = [op |-> "unblock_client", ip |-> ip, value |-> TRUE]
     ELSE /\ UNCHANGED <<blocked_ips, clients>>
          /\ ret' = [op |-> "unblock_client", ip |-> ip, value |-> FALSE]
  /\ UNCHANGED <<config, server, now, allowed_ips, active_connections, stats,
                 connections, task, sockVars>>

\* ------------------------------------------------------ the environment
ClientAvail(c) == cli[c].sent - cli[c].consumed
RemoteAvail(c) == tg[c].sent - tg[c].consumed

\* The client delivers one more segment of n bytes.
ClientSend(c, n) ==
  /\ c \in Talkers
  /\ task[c].pc \notin {"idle", "done"}
  /\ ~cli[c].eof /\ ~cli[c].closed
  /\ cli[c].sent + n <= MaxClientBytes
  /\ cli' = [cli EXCEPT ![c].sent = @ + n]
  /\ ret' = NoRet
  /\ UNCHANGED <<config, server, now, policyVars, connections, task, tg, pump>>

\* The client closes its end: the reader sees EOF after the buffered bytes.
ClientEOF(c) ==
  /\ task[c].pc \notin {"idle", "done"}
  /\ ~cli[c].eof /\ ~cli[c].closed
  /\ cli' = [cli EXCEPT ![c].eof = TRUE]
  /\ ret' = NoRet
  /\ UNCHANGED <<config, server, now, policyVars, connections, task, tg, pump>>

\* The remote endpoint delivers one more segment.
RemoteSend(c, n) ==
  /\ tg[c].opened /\ ~tg[c].eof /\ ~tg[c].closed
  /\ tg[c].sent + n <= MaxRemoteBytes
  /\ tg' = [tg EXCEPT ![c].sent = @ + n]
  /\ ret' = NoRet
  /\ UNCHANGED <<config, server, now, policyVars, connections, task, cli, pump>>

\* The remote endpoint closes its end.
RemoteEOF(c) ==
  /\ tg[c].opened /\ ~tg[c].eof /\ ~tg[c].closed
  /\ tg' = [tg EXCEPT ![c].eof = TRUE]
  /\ ret' = NoRet
  /\ UNCHANGED <<config, server, now, policyVars, connections, task, cli, pump>>

\* The clock.
Tick ==
  /\ now + TickStep <= MaxTime
  /\ now' = now + TickStep
  /\ ret' = NoRet
  /\ UNCHANGED <<config, server, policyVars, connections, task, sockVars>>

\* ------------------------------------------------ MTProtoHandler, handshake
\* MTProtoHandler.handle_connection from the start of its task to the
\* suspension in reader.read(64): the session is entered in
\* MTProtoHandler.connections.
handle_connection(c) ==
  /\ task[c].pc = "admitted"
  /\ connections' = Put(connections, c, ConnectionInfo(task[c].ip))
  /\ task' = [task EXCEPT ![c].pc = "hs_read", ![c].path = Append(@, "Handshaking")]
  /\ ret' = NoRet
  /\ UNCHANGED <<config, server, now, policyVars, sockVars>>

\* reader.read(n): the bytes a read of at most n returns once it is ready
\* (some byte is buffered, or EOF): whatever is buffered, n at most.
read(avail, n) == Min(avail, n)

\* protocol.py:135, mutated: reader.read() without a size.
handshake_read_all(avail) == avail

\* protocol.py:135: reader.read(64)
handshake_read(avail) == read(avail, PreambleLen)

\* ProxyAuth.validate_client_handshake
validate_client_handshake(len) == len = PreambleLen

\* ProxyAuth.create_handshake_response: the length of the encrypted response
\* (AES-CTR keeps the length of serverNonce + secret); 0 stands for CryptoError.
create_handshake_response(len) == IF len < PreambleLen THEN 0 ELSE ResponseLen

\* protocol.py:137-153, mutated: no check of the preamble.
handshake_result_unchecked(n) == "ok"

\* protocol.py:137-153: what _perform_handshake makes of a preamble of n
\* bytes before it writes anything.
handshake_result(n) ==
  IF n # PreambleLen THEN "hs_short"
  ELSE IF ~validate_client_handshake(n) THEN "hs_invalid"
  ELSE IF create_handshake_response(n) = 0 THEN "hs_crypto"
  ELSE "ok"

\* protocol.py:137-156, mutated: the response is written before the checks.
handshake_reply_unchecked(n) == ResponseLen

\* protocol.py:137-156: the bytes _perform_handshake writes to the client.
handshake_reply(n) ==
  IF handshake_result(n) = "ok" THEN create_handshake_response(n) ELSE 0

\* abort_connection, mutated: the cleanup clears the whole table.
abort_connection_all(c, why, state) ==
  /\ connections' = <<>>
  /\ task' = [task EXCEPT ![c].pc = "mt_closing", ![c].fail = why,
                          ![c].path = Append(@, state)]

\* The failure path of MTProtoHandler.handle_connection for a session that
\* never reached the relay: the except clause and the finally block up to the
\* suspension in writer.wait_closed() (protocol.py:80-90).
abort_connection(c, why, state) ==
  /\ connections' = Drop(connections, c)
  /\ task' = [task EXCEPT ![c].pc = "mt_closing", ![c].fail = why,
                          ![c].path = Append(@, state)]

\* MTProtoHandler._perform_handshake from the return of reader.read(64) on, and
\* on success _process_connection up to the suspension in open_connection.
\* lost: the client is gone when the response is written (drain raises).
perform_handshake(c, lost) ==
  /\ task[c].pc = "hs_read"
  /\ ClientAvail(c) > 0 \/ cli[c].eof
  /\ lost => cli[c].eof
  /\ LET n == handshake_read(ClientAvail(c))
         res == handshake_result(n)
         got == [cli[c] EXCEPT !.consumed = @ + n, !.hs_consumed = @ + n,
                               !.wrote = @ + handshake_reply(n)]
     IN IF res # "ok"
        THEN /\ cli' = [cli EXCEPT ![c] = close_connection(got)]
             /\ abort_connection(c, res, "Rejected")
             /\ UNCHANGED tg
        ELSE IF lost
        THEN /\ cli' = [cli EXCEPT ![c] = close_connection(got)]
             /\ abort_connection(c, "hs_write", "Rejected")
             /\ UNCHANGED tg
        ELSE /\ cli' = [cli EXCEPT ![c] = [got EXCEPT !.responded = TRUE]]
             /\ connections' = [connections EXCEPT
                                  ![c].bytes_received = @ + n,
                                  ![c].bytes_sent = @ + handshake_reply(n)]
             /\ tg' = [tg EXCEPT ![c].attempts = @ + 1]
             /\ task' = [task EXCEPT ![c].pc = "connecting"]
  /\ ret' = NoRet
  /\ UNCHANGED <<config, server, now, policyVars, pump>>

\* HandshakeTimeout, mutated: the failed handshake is counted as a blocked
\* connection.
HandshakeTimeout_counted(c) ==
  /\ task[c].pc = "hs_read"
  /\ ClientAvail(c) = 0 /\ ~cli[c].eof
  /\ cli' = [cli EXCEPT ![c] = close_connection(@)]
  /\ abort_connection(c, "hs_timeout", "Rejected")
  /\ stats' = [stats EXCEPT !.blocked_connections = @ + 1]
  /\ ret' = NoRet
  /\ UNCHANGED <<config, server, now, clients, blocked_ips, allowed_ips, active_connections,
                 tg, pump>>

\* wait_for(reader.read(64), timeout=10.0) expires with nothing read.
HandshakeTimeout(c) ==
  /\ task[c].pc = "hs_read"
  /\ ClientAvail(c) = 0 /\ ~cli[c].eof
  /\ cli' = [cli EXCEPT ![c] = close_connection(@)]
  /\ abort_connection(c, "hs_timeout", "Rejected")
  /\ ret' = NoRet
  /\ UNCHANGED <<config, server, now, policyVars, tg, pump>>

\* MTProtoHandler._connect_to_telegram: open_connection succeeds, and
\* _proxy_data starts the two forward_data tasks, each suspended in read.
connect_to_telegram(c) ==
  /\ task[c].pc = "connecting"
  /\ tg' = [tg EXCEPT ![c].opened = TRUE]
  /\ pump' = [pump EXCEPT ![c] = [c2t |-> "read", t2c |-> "read"]]
  /\ task' = [task EXCEPT ![c].pc = "relaying", ![c].path = Append(@, "Relaying")]
  /\ ret' = NoRet
  /\ UNCHANGED <<config, server, now, policyVars, connections, cli>>

\* MTProtoHandler._connect_to_telegram, mutated: a failed attempt is retried
\* once before the session is given up.
ConnectFail_retried(c) ==
  /\ task[c].pc = "connecting"
  /\ IF tg[c].attempts < 2
     THEN /\ tg' = [tg EXCEPT ![c].attempts = @ + 1]
          /\ UNCHANGED <<cli, connections, task>>
     ELSE /\ cli' = [cli EXCEPT ![c] = close_connection(@)]
          /\ abort_connection(c, "connect", "Closed")
          /\ UNCHANGED tg
  /\ ret' = NoRet
  /\ UNCHANGED <<config, server, now, policyVars, pump>>

\* MTProtoHandler._connect_to_telegram: open_connection fails or its 10 s
\* timeout expires; ProtocolError ends the session.
ConnectFail(c) ==
  /\ task[c].pc = "connecting"
  /\ cli' = [cli EXCEPT ![c] = close_connection(@)]
  /\ abort_connection(c, "connect", "Closed")
  /\ ret' = NoRet
  /\ UNCHANGED <<config, server, now, policyVars, tg, pump>>

\* ---------------------------------------------------- MTProtoHandler, relay
Dirs == {"c2t", "t2c"}
Other(d) == IF d = "c2t" THEN "t2c" ELSE "c2t"

\* What a pump reads from: buffered bytes, and whether EOF follows them.  A
\* transport closed on this side (writer.close() of the other pump) feeds
\* EOF to its reader as well.
SrcAvail(c, d) == IF d = "c2t" THEN ClientAvail(c) ELSE RemoteAvail(c)
SrcEOF(c, d) == IF d = "c2t" THEN cli[c].eof \/ cli[c].closed
                             ELSE tg[c].eof \/ tg[c].closed

\* forward_data's finally: writer.close() on the socket it writes to.
pump_close(c, d) ==
  IF d = "c2t"
  THEN tg' = [tg EXCEPT ![c].closed = TRUE] /\ UNCHANGED cli
  ELSE cli' = [cli EXCEPT ![c].closed = TRUE] /\ UNCHANGED tg

\* MTProtoHandler._process_data, mutated: the last byte of a chunk is lost.
process_data_truncating(n) == n - 1

\* MTProtoHandler._process_data returns the chunk it was given, unchanged:
\* the number of bytes that go on to the writer, of the n bytes read.
process_data(n) == n

\* forward_data: one pass of the loop from the return of reader.read(8192)
\* with data: counters, _process_data (the identity), writer.write, drain.
\* blocks: the destination's buffer is over its high-water mark, so drain
\* suspends; otherwise the loop is back in reader.read.
forward_data(c, d, blocks) ==
  /\ task[c].pc = "relaying"
  /\ pump[c][d] = "read"
  /\ SrcAvail(c, d) > 0
  /\ LET n == read(SrcAvail(c, d), ChunkSize)
     IN IF d = "c2t"
        THEN /\ cli' = [cli EXCEPT ![c].consumed = @ + n]
             /\ tg' = [tg EXCEPT ![c].wrote = @ + process_data(n)]
             /\ connections' = [connections EXCEPT ![c].bytes_received = @ + n]
        ELSE /\ tg' = [tg EXCEPT ![c].consumed = @ + n]
             /\ cli' = [cli EXCEPT ![c].wrote = @ + process_data(n)]
             /\ connections' = [connections EXCEPT ![c].bytes_sent = @ + n]
  /\ pump' = [pump EXCEPT ![c][d] = IF blocks THEN "drain" ELSE "read"]
  /\ ret' = NoRet
  /\ UNCHANGED <<config, server, now, policyVars, task>>

\* forward_data: reader.read returns b'' (EOF): break, finally.
PumpEOF(c, d) ==
  /\ task[c].pc = "relaying"
  /\ pump[c][d] = "read"
  /\ SrcAvail(c, d) = 0 /\ SrcEOF(c, d)
  /\ pump_close(c, d)
  /\ pump' = [pump EXCEPT ![c][d] = "done"]
  /\ ret' = NoRet
  /\ UNCHANGED <<config, server, now, policyVars, connections, task>>

\* forward_data: the destination took the buffered bytes, drain returns.
PumpDrained(c, d) ==
  /\ task[c].pc = "relaying"
  /\ pump[c][d] = "drain"
  /\ pump' = [pump EXCEPT ![c][d] = "read"]
  /\ ret' = NoRet
  /\ UNCHANGED <<config, server, now, policyVars, connections, task, cli, tg>>

\* forward_data: the read or the drain raises (connection reset): except,
\* finally.
PumpError(c, d) ==
  /\ task[c].pc = "relaying"
  /\ pump[c][d] \in {"read", "drain"}
  /\ pump_close(c, d)
  /\ pump' = [pump EXCEPT ![c][d] = "done"]
  /\ ret' = NoRet
  /\ UNCHANGED <<config, server, now, policyVars, connections, task>>

\* _proxy_data: gather returns when both forward_data tasks are done;
\* _process_connection's finally closes the remote writer and is suspended in
\* its wait_closed.
proxy_data_done(c) ==
  /\ task[c].pc = "relaying"
  /\ \A d \in Dirs : pump[c][d] = "done"
  /\ tg' = [tg EXCEPT ![c].closed = TRUE]
  /\ task' = [task EXCEPT ![c].pc = "tg_closing"]
  /\ ret' = NoRet
  /\ UNCHANGED <<config, server, now, policyVars, connections, cli, pump>>

\* telegram_writer.wait_closed() returns (the transport has nothing left to
\* send), then MTProtoHandler.handle_connection's finally: the session leaves
\* MTProtoHandler.connections, the client writer is closed.
RemoteClosed(c) ==
  /\ task[c].pc = "tg_closing"
  /\ ~tg[c].unsent
  /\ connections' = Drop(connections, c)
  /\ cli' = [cli EXCEPT ![c] = close_connection(@)]
  /\ task' = [task EXCEPT ![c].pc = "mt_closing", ![c].path = Append(@, "Closed")]
  /\ ret' = NoRet
  /\ UNCHANGED <<config, server, now, policyVars, tg, pump>>

\* wait_for(handle_connection, timeout) in _handle_connection expires: the
\* session's task is cancelled where it is suspended, and its finally blocks
\* run (in the relay: both forward_data tasks are cancelled, each closes its
\* writer; a pump cancelled in drain leaves its bytes in the transport).
OverallTimeout(c) ==
  /\ task[c].pc \in {"hs_read", "connecting", "relaying"}
  /\ IF task[c].pc = "relaying"
     THEN /\ pump' = [pump EXCEPT ![c] = [c2t |-> "done", t2c |-> "done"]]
          /\ tg' = [tg EXCEPT ![c].closed = TRUE,
                              ![c].unsent = (pump[c]["c2t"] = "drain")]
          /\ cli' = [cli EXCEPT ![c].closed = TRUE,
                                ![c].unsent = (pump[c]["t2c"] = "drain")]
          /\ task' = [task EXCEPT ![c].pc = "tg_closing", ![c].fail = "timeout"]
          /\ UNCHANGED connections
     ELSE /\ cli' = [cli EXCEPT ![c] = close_connection(@)]
          /\ abort_connection(c, "timeout", "Closed")
          /\ UNCHANGED <<tg, pump>>
  /\ ret' = NoRet
  /\ UNCHANGED <<config, server, now, policyVars>>

\* A peer takes the bytes left in a transport the proxy closed (or resets the
\* connection): the transport of direction d's destination is closed for good.
Flushed(c, d) ==
  /\ IF d = "c2t"
     THEN /\ tg[c].unsent
          /\ tg' = [tg EXCEPT ![c].unsent = FALSE]
          /\ UNCHANGED cli
     ELSE /\ cli[c].unsent
          /\ cli' = [cli EXCEPT ![c].unsent = FALSE]
          /\ UNCHANGED tg
  /\ ret' = NoRet
  /\ UNCHANGED <<config, server, now, policyVars, connections, task, pump>>

\* writer.wait_closed() in MTProtoHandler.handle_connection returns, then
\* _handle_connection after wait_for: its finally adds the byte counters of the
\* ConnectionInfo it created to the client record and the statistics
\* (handler.py:219-227); then handle_client's finally.
SessionClosed(c) ==
  /\ task[c].pc = "mt_closing"
  /\ ~cli[c].unsent
  /\ LET info == active_connections[c]
         ip == task[c].ip
         known == clients[ip] # NoClient
     IN /\ clients' = IF known
                      THEN [clients EXCEPT ![ip].bytes_sent = @ + info.bytes_sent,
                                           ![ip].bytes_received = @ + info.bytes_received]
                      ELSE clients
        /\ stats' = [stats EXCEPT
                       !.total_bytes_sent = IF known THEN @ + info.bytes_sent ELSE @,
                       !.total_bytes_received = IF known THEN @ + info.bytes_received ELSE @,
                       !.active_connections = @ - 1]
  /\ handle_client_finally(c)
  /\ ret' = NoRet
  /\ UNCHANGED <<config, server, now, blocked_ips, allowed_ips, connections, tg, pump>>

\* ------------------------------------------------- the handshake, by content
\* The positions at which the preambles that are tried differ: the first and
\* the last of the first 16 bytes, the byte that follows them (all three in
\* the key material, the last two in the client nonce), and the last byte.
VaryPos == {1, 16, 17, PreambleLen}

\* The 64-byte preambles that are tried, and the short ones (their first
\* halves).
Preambles ==
  {[i \in 1..PreambleLen |-> IF i \in VaryPos THEN f[i] ELSE 0] :
     f \in [VaryPos -> 0..MaxByte]}

ShortPreambles == {SubSeq(p, 1, PreambleLen \div 2) : p \in Preambles}

\* data[a:b] of Python, for 0 <= a <= b.
Slice(data, a, b) == SubSeq(data, a + 1, Min(b, Len(data)))

\* hashlib.md5(data).digest()[0]: md5 is not computed; a fixed function of
\* every byte of data and of its length stands for it.
RECURSIVE Mix(_)
Mix(data) ==
  IF data = <<>> THEN 0
  ELSE (Mix(Tail(data)) * 31 + Head(data) + 1) % 256

md5_first_byte(data) == (Mix(data) * 7 + Len(data)) % 256

\* MTProtoHandler._extract_dc_from_handshake, mutated: one byte more is
\* hashed.
extract_dc_from_handshake_17(handshake) ==
  (md5_first_byte(Slice(handshake, 0, DcHashLen + 1)) % DcCount) + 1

\* MTProtoHandler._extract_dc_from_handshake
extract_dc_from_handshake(handshake) ==
  (md5_first_byte(Slice(handshake, 0, DcHashLen)) % DcCount) + 1

\* MTProtoCrypto.create_auth_key, mutated: longer nonces are taken.
create_auth_key_atleast(client_nonce, server_nonce) ==
  IF Len(client_nonce) < NonceLen \/ server_nonce < NonceLen THEN 0
  ELSE DigestLen

\* MTProtoCrypto.create_auth_key: the length of the key, 0 for CryptoError.
create_auth_key(client_nonce, server_nonce) ==
  IF Len(client_nonce) # NonceLen \/ server_nonce # NonceLen THEN 0
  ELSE DigestLen

\* ProxyAuth.create_handshake_response: the lengths of the encrypted
\* response (AES-CTR keeps the length of server_nonce + secret) and of the
\* auth key; 0 for CryptoError.
handshake_response(client_handshake) ==
  IF Len(client_handshake) < PreambleLen
  THEN [response |-> 0, auth_key |-> 0]
  ELSE LET encrypted_data == Slice(client_handshake, 0, 56)
           client_nonce == Slice(encrypted_data, 8, 24)
       IN [response |-> NonceLen + SecretLen,
           auth_key |-> create_auth_key(client_nonce, NonceLen)]

\* MTProtoHandler._perform_handshake on the bytes read, up to the write of
\* the response: the length check, validate_client_handshake,
\* _extract_dc_from_handshake, create_handshake_response (which derives the
\* response and the keys from the secret ProxyAuth was built with).
process_handshake(handshake) ==
  /\ ret' = IF Len(handshake) # PreambleLen \/ ~validate_client_handshake(Len(handshake))
            THEN [op |-> "handshake", handshake |-> handshake, accepted |-> FALSE]
            ELSE [op |-> "handshake", handshake |-> handshake, accepted |-> TRUE,
                  secret |-> config.auth,
                  dc_id |-> extract_dc_from_handshake(handshake),
                  response |-> handshake_response(handshake).response,
                  auth_key |-> handshake_response(handshake).auth_key]
  /\ UNCHANGED <<config, server, now, policyVars, connections, task, sockVars>>

\* ------------------------------------------- administration and shutdown
\* MTProtoHandler.close_connection(ip, port): the entry of the session leaves
\* MTProtoHandler.connections; nothing else is touched.
mtproto_close_connection(c) ==
  /\ task[c].pc # "idle"
  /\ connections' = Drop(connections, c)
  /\ ret' = [op |-> "close_connection", id |-> c,
             value |-> (c \in DOMAIN connections)]
  /\ UNCHANGED <<config, server, now, policyVars, task, sockVars>>

\* MTProtoHandler.close_all_connections: the table is cleared.
close_all_connections ==
  /\ connections' = <<>>
  /\ ret' = [op |-> "close_all_connections", value |-> Cardinality(DOMAIN connections)]
  /\ UNCHANGED <<config, server, now, policyVars, task, sockVars>>

\* MTProxyServer.stop up to the sleep in _close_connections: running is
\* cleared, the listening socket is closed; the loop of _close_connections
\* over the sessions does nothing.
stop ==
  /\ server = "running"
  /\ server' = "closing"
  /\ ret' = NoRet
  /\ UNCHANGED <<config, now, policyVars, connections, task, sockVars>>

\* A connection as the cancellation finds it: its task, its sockets, its
\* pumps, and whether MTProtoHandler.handle_connection and handle_client have
\* reached their finally blocks in the cancellation.
Cancelling(c) ==
  [t |-> task[c], cl |-> cli[c], g |-> tg[c], pm |-> pump[c],
   leftMTProto |-> FALSE, leftHandler |-> FALSE]

\* What one CancelledError makes of the tasks of a connection, up to their
\* next suspension: the finally blocks run from where the tasks were
\* suspended, and a task cancelled in wait_closed() gives the wait up.
cancel(s) ==
  CASE s.t.pc \in {"rej_closing", "mt_closing"} ->
         [s EXCEPT !.t.pc = "done", !.leftHandler = TRUE]
    [] s.t.pc = "admitted" ->
         [s EXCEPT !.t.pc = "done", !.t.fail = "cancelled",
                   !.t.path = Append(@, "Closed"),
                   !.cl = close_connection(@), !.leftHandler = TRUE]
    [] s.t.pc \in {"hs_read", "connecting"} ->
         [s EXCEPT !.t.pc = "mt_closing", !.t.fail = "cancelled",
                   !.t.path = Append(@, "Closed"),
                   !.cl = close_connection(@), !.leftMTProto = TRUE]
    [] s.t.pc = "relaying" ->
         [s EXCEPT !.t.pc = "tg_closing", !.t.fail = "cancelled",
                   !.pm = [c2t |-> "done", t2c |-> "done"],
                   !.g.closed = TRUE, !.g.unsent = (s.pm["c2t"] = "drain"),
                   !.cl.closed = TRUE, !.cl.unsent = (s.pm["t2c"] = "drain")]
    [] s.t.pc = "tg_closing" ->
         [s EXCEPT !.t.pc = "mt_closing", !.t.path = Append(@, "Closed"),
                   !.cl = close_connection(@), !.leftMTProto = TRUE]
    [] OTHER -> s

\* MTProxyServer.stop after the sleep: _stop_background_tasks cancels every
\* task of the loop that is not done, the sessions' tasks and the task that
\* runs stop() itself among them, and awaits their gather.  That gather holds
\* the awaiting task, which can therefore never be woken: stop() does not
\* get beyond this await.  again: the sessions whose relay task has run
\* before wait_for, cancelled as well, cancels it once more.
stop_background_tasks(again) ==
  /\ server = "closing"
  /\ server' = "cancelling"
  /\ LET res == [c \in AllConns |->
                   IF c \in again THEN cancel(cancel(Cancelling(c)))
                                  ELSE cancel(Cancelling(c))]
         LeftMTProto == {c \in AllConns : res[c].leftMTProto}
         LeftHandler == {c \in AllConns : res[c].leftHandler}
     IN /\ task' = [c \in AllConns |-> res[c].t]
        /\ cli' = [c \in AllConns |-> res[c].cl]
        /\ tg' = [c \in AllConns |-> res[c].g]
        /\ pump' = [c \in AllConns |-> res[c].pm]
        /\ connections' = [c \in (DOMAIN connections) \ LeftMTProto |-> connections[c]]
        /\ active_connections' =
             [c \in (DOMAIN active_connections) \ LeftHandler |-> active_connections[c]]
        /\ stats' = [stats EXCEPT !.active_connections = @ - Cardinality(LeftHandler)]
  /\ ret' = NoRet
  /\ UNCHANGED <<config, now, clients, blocked_ips, allowed_ips>>

\* --------------------------------------------------- the endpoint overlay
\* Text is a sequence of characters.  The directive of an overlay line.
Keyword == <<"p", "r", "o", "x", "y", "_", "f", "o", "r">>

DigitChars == <<"0", "1", "2", "3", "4", "5", "6", "7", "8", "9">>

\* str(n) for n >= 0
RECURSIVE Digits(_)
Digits(n) ==
  IF n < 10 THEN <<DigitChars[n + 1]>>
  ELSE Digits(n \div 10) \o <<DigitChars[(n % 10) + 1]>>

IsDigit(ch) == \E i \in DOMAIN DigitChars : DigitChars[i] = ch
DigitVal(ch) == (CHOOSE i \in DOMAIN DigitChars : DigitChars[i] = ch) - 1

\* The value of a sequence of digits.
RECURSIVE Number(_)
Number(ds) ==
  IF ds = <<>> THEN 0
  ELSE Number(SubSeq(ds, 1, Len(ds) - 1)) * 10 + DigitVal(ds[Len(ds)])

\* int(token) of Python on a token without white space: an optional sign and
\* at least one digit; ok is FALSE where int raises ValueError.
int(token) ==
  LET signed == token # <<>> /\ Head(token) \in {"+", "-"}
      ds == IF signed THEN Tail(token) ELSE token
  IN IF ds = <<>> \/ \E i \in DOMAIN ds : ~IsDigit(ds[i])
     THEN [ok |-> FALSE, value |-> 0]
     ELSE [ok |-> TRUE,
           value |-> IF signed /\ Head(token) = "-" THEN 0 - Number(ds) ELSE Number(ds)]

\* text.split(sep) of Python: the fields between the separators, empty ones
\* included.
RECURSIVE split(_, _)
split(text, sep) ==
  IF text = <<>> THEN << <<>> >>
  ELSE LET rest == split(Tail(text), sep)
       IN IF Head(text) = sep THEN << <<>> >> \o rest
          ELSE << <<Head(text)>> \o Head(rest) >> \o Tail(rest)

\* text.split() of Python: the fields between runs of white space.
NonEmpty(field) == field # <<>>
split_whitespace(text) == SelectSeq(split(text, " "), NonEmpty)

\* text.startswith(prefix)
startswith(text, prefix) ==
  Len(text) >= Len(prefix) /\ SubSeq(text, 1, Len(prefix)) = prefix

\* MTProtoHandler.telegram_dcs as __init__ builds it: five endpoints, each a
\* pair of host and port.
BuiltinIds == 1..5
BuiltinHost(id) == <<"t">> \o Digits(id)
telegram_dcs_builtin == [id \in BuiltinIds |-> <<BuiltinHost(id), 443>>]

\* _load_official_config, the body of its loop, mutated: an id that has an
\* entry keeps it.
apply_line_keep(dcs, line) ==
  IF ~startswith(line, Keyword \o <<" ">>) THEN dcs
  ELSE LET parts == split_whitespace(line)
       IN IF Len(parts) < 3 THEN dcs
          ELSE LET dc_id == int(parts[2])
                   ip_port == split(parts[3], ":")
               IN IF ~dc_id.ok THEN dcs
                  ELSE IF Len(ip_port) # 2 THEN dcs
                  ELSE IF ~int(ip_port[2]).ok THEN dcs
                  ELSE IF dc_id.value \in DOMAIN dcs THEN dcs
                  ELSE Put(dcs, dc_id.value, <<ip_port[1], int(ip_port[2]).value>>)

\* _load_official_config, the body of its loop over the lines of the file
\* (protocol.py:319-331): a line that is not a proxy_for line, that has fewer
\* than three parts, or whose id or port int() refuses, is passed over.
apply_line(dcs, line) ==
  IF ~startswith(line, Keyword \o <<" ">>) THEN dcs
  ELSE LET parts == split_whitespace(line)
       IN IF Len(parts) < 3 THEN dcs
          ELSE LET dc_id == int(parts[2])
                   ip_port == split(parts[3], ":")
               IN IF ~dc_id.ok THEN dcs
                  ELSE IF Len(ip_port) # 2 THEN dcs
                  ELSE IF ~int(ip_port[2]).ok THEN dcs
                  ELSE Put(dcs, dc_id.value, <<ip_port[1], int(ip_port[2]).value>>)

\* _load_official_config: the loop over the lines.
RECURSIVE load_lines(_, _)
load_lines(dcs, lines) ==
  IF lines = <<>> THEN dcs
  ELSE load_lines(apply_line(dcs, Head(lines)), Tail(lines))

\* _connect_to_telegram, its lookup (protocol.py:192-195).
lookup_dc(dcs, dc_id) == IF dc_id \notin DOMAIN dcs THEN dcs[1] ELSE dcs[dc_id]

\* The lines a file is made of: well-formed entries, given by id, host and
\* port, and malformed lines, given by their text.
OverlayIds == {1, 7}
OverlayHosts == {<<"a">>, <<"b">>}
Entries == {[kind |-> "entry", id |-> id, host |-> h, port |-> 8888] :
              id \in OverlayIds, h \in OverlayHosts}

EntryHead == Keyword \o <<" ", "1", " ">>
Malformed ==
  {[kind |-> "text", text |-> t] :
     t \in {EntryHead \o <<"b", ":", "8", "0", ";">>,
            Keyword \o <<" ", "x", " ", "b", ":", "8", "0">>,
            EntryHead \o <<"b">>,
            EntryHead \o <<"b", ":", "c", ":", "8", "0">>,
            Keyword \o <<" ", "1">>,
            <<"d", "e", "f", "a", "u", "l", "t", " ", "1", " ", "b", ":", "8", "0">>}}

\* The text of a line.
Render(item) ==
  IF item.kind = "entry"
  THEN Keyword \o <<" ">> \o Digits(item.id) \o <<" ">> \o item.host
         \o <<":">> \o Digits(item.port)
  ELSE item.text

\* The files that are tried: up to MaxLines lines.
Files == UNION {[1..n -> Entries \cup Malformed] : n \in 0..MaxLines}

\* MTProtoHandler.__init__ from the built-in table on: _load_official_config
\* on the lines of config/proxy-multi.conf (an absent file is an empty one).
load_official_config(file) ==
  /\ ret = NoRet
  /\ ret' = [op |-> "load_official_config", file |-> file,
             telegram_dcs |->
               load_lines(telegram_dcs_builtin, [i \in DOMAIN file |-> Render(file[i])])]
  /\ UNCHANGED <<config, server, now, policyVars, connections, task, sockVars>>

\* ------------------------------------------------------------ maintenance
\* The ages cleanup_old_clients is called with, in seconds (the code takes
\* hours and multiplies by 3600).
MaxAges == {TickStep, 2 * TickStep}

\* handler.py:348-349, mutated: the sweep stops after the first record it
\* finds.
old_clients_first(max_age) ==
  LET old == {ip \in IPs : clients[ip] # NoClient /\ now - clients[ip].last_seen > max_age}
  IN IF old = {} THEN {} ELSE {CHOOSE ip \in old : TRUE}

\* The addresses whose record cleanup_old_clients finds too old
\* (handler.py:348-349).
old_clients(max_age) ==
  {ip \in IPs : clients[ip] # NoClient /\ now - clients[ip].last_seen > max_age}

\* handler.py:348-349, mutated: a record of exactly max_age is old as well.
stale_or_equal(max_age) ==
  {ip \in IPs : clients[ip] # NoClient /\ now - clients[ip].last_seen >= max_age}

\* ConnectionHandler.cleanup_old_clients, mutated: an address whose record
\* is deleted is taken off the deny-list.
cleanup_old_clients_unblocking(max_age) ==
  /\ clients' = [ip \in IPs |-> IF ip \in old_clients(max_age) THEN NoClient
                                ELSE clients[ip]]
  /\ blocked_ips' = blocked_ips \ old_clients(max_age)
  /\ ret' = [op |-> "cleanup_old_clients", max_age |-> max_age,
             value |-> Cardinality(old_clients(max_age))]
  /\ UNCHANGED <<config, server, now, allowed_ips, active_connections, stats,
                 connections, task, sockVars>>

\* ConnectionHandler.cleanup_old_clients, mutated: the comparison is >=.
cleanup_old_clients_inclusive(max_age) ==
  /\ clients' = [ip \in IPs |-> IF ip \in stale_or_equal(max_age) THEN NoClient
                                ELSE clients[ip]]
  /\ ret' = [op |-> "cleanup_old_clients", max_age |-> max_age,
             value |-> Cardinality(stale_or_equal(max_age))]
  /\ UNCHANGED <<config, server, now, blocked_ips, allowed_ips, active_connections, stats,
                 connections, task, sockVars>>

\* ConnectionHandler.cleanup_old_clients
cleanup_old_clients(max_age) ==
  /\ clients' = [ip \in IPs |-> IF ip \in old_clients(max_age) THEN NoClient
                                ELSE clients[ip]]
  /\ ret' = [op |-> "cleanup_old_clients", max_age |-> max_age,
             value |-> Cardinality(old_clients(max_age))]
  /\ UNCHANGED <<config, server, now, blocked_ips, allowed_ips, active_connections, stats,
                 connections, task, sockVars>>

\* ---------------------------------------------------------- configuration
\* The 'server' section Config.get reads.
ServerConfig == config.dicts[config.data.server]

\* The administrator writes the configuration file.
write_file(file) ==
  /\ file # config.file
  /\ config' = [config EXCEPT !.file = file]
  /\ ret' = NoRet
  /\ UNCHANGED <<server, now, policyVars, connections, task, sockVars>>

\* Config.set('server.<key>', value)
config_set(key, value) ==
  /\ config' = [config EXCEPT !.dicts[config.data.server][key] = value]
  /\ ret' = [op |-> "set", key |-> key, value |-> value]
  /\ UNCHANGED <<server, now, policyVars, connections, task, sockVars>>

\* Config.save: the whole configuration is dumped to the file.
config_save ==
  /\ config' = [config EXCEPT !.file = ServerConfig]
  /\ ret' = [op |-> "save"]
  /\ UNCHANGED <<server, now, policyVars, connections, task, sockVars>>

\* Config.reload
config_reload(generated) ==
  /\ config' = reload(config, generated)
  /\ ret' = [op |-> "reload", file |-> config.file]
  /\ UNCHANGED <<server, now, policyVars, connections, task, sockVars>>

\* MTProxyServer.reload_config: Config.reload, then the handler's copy of the
\* 'server' section is updated.
reload_config(generated) ==
  /\ LET cfg == reload(config, generated)
     IN config' = [cfg EXCEPT !.handler = cfg.dicts[cfg.data.server].secret]
  /\ ret' = [op |-> "reload_config"]
  /\ UNCHANGED <<server, now, policyVars, connections, task, sockVars>>

\* ------------------------------------------------------------------ crypto
\* Bytes are numbers in 0..255, byte strings are sequences of them.
BlockLen == 16

\* a ^ b on two bytes
RECURSIVE XorByte(_, _)
XorByte(a, b) ==
  IF a = 0 THEN b
  ELSE IF b = 0 THEN a
  ELSE ((a + b) % 2) + 2 * XorByte(a \div 2, b \div 2)

\* bytes(a ^ b for a, b in zip(x, y))
xor(x, y) == [i \in 1..Min(Len(x), Len(y)) |-> XorByte(x[i], y[i])]

\* What the key adds to byte i of a block.
KeyByte(key, i) == (key[i] + 3 * key[((i + BlockLen - 1) % Len(key)) + 1] + i) % 256

\* AES.new(key, AES.MODE_ECB).encrypt(block) on one block: AES is not
\* computed; a keyed bijection of the 16-byte blocks stands for it (the block
\* is rotated by one byte and the key is added byte by byte).
aes_encrypt(key, block) ==
  [i \in 1..BlockLen |-> (block[(i % BlockLen) + 1] + KeyByte(key, i)) % 256]

\* AES.new(key, AES.MODE_ECB).decrypt(block): the inverse of aes_encrypt.
aes_decrypt(key, block) ==
  [j \in 1..BlockLen |->
     LET i == ((j + BlockLen - 2) % BlockLen) + 1
     IN (block[i] + 256 - KeyByte(key, i)) % 256]

\* The result of an operation that raises CryptoError, and of one that
\* returns value.
CryptoError == [ok |-> FALSE, value |-> <<>>]
Returned(value) == [ok |-> TRUE, value |-> value]

\* encrypt_aes_ige, its loop over the blocks (crypto.py:93-110).
RECURSIVE ige_encrypt_blocks(_, _, _, _)
ige_encrypt_blocks(aes_key, data, iv1, iv2) ==
  IF data = <<>> THEN <<>>
  ELSE LET block == SubSeq(data, 1, BlockLen)
           xor_block == xor(block, iv1)
           enc_block == aes_encrypt(aes_key, xor_block)
           result_block == xor(enc_block, iv2)
       IN result_block \o
          ige_encrypt_blocks(aes_key, SubSeq(data, BlockLen + 1, Len(data)),
                             result_block, block)

\* MTProtoCrypto.encrypt_aes_ige
encrypt_aes_ige(data, key, iv) ==
  IF Len(data) % BlockLen # 0 THEN CryptoError
  ELSE IF Len(key) < 32 THEN CryptoError
  ELSE IF Len(iv) < 32 THEN CryptoError
  ELSE Returned(ige_encrypt_blocks(SubSeq(key, 1, 32), data,
                                   SubSeq(iv, 1, BlockLen), SubSeq(iv, BlockLen + 1, 32)))

RECURSIVE ige_decrypt_blocks_swapped(_, _, _, _)
RECURSIVE ige_decrypt_blocks(_, _, _, _)
\* decrypt_aes_ige, its loop, mutated: the two chaining values are updated
\* the wrong way round.
ige_decrypt_blocks_swapped(aes_key, data, iv1, iv2) ==
  IF data = <<>> THEN <<>>
  ELSE LET block == SubSeq(data, 1, BlockLen)
           xor_block == xor(block, iv2)
           dec_block == aes_decrypt(aes_key, xor_block)
           result_block == xor(dec_block, iv1)
       IN result_block \o
          ige_decrypt_blocks_swapped(aes_key, SubSeq(data, BlockLen + 1, Len(data)),
                                     result_block, block)

\* decrypt_aes_ige, its loop over the blocks (crypto.py:131-152).
ige_decrypt_blocks(aes_key, data, iv1, iv2) ==
  IF data = <<>> THEN <<>>
  ELSE LET block == SubSeq(data, 1, BlockLen)
           xor_block == xor(block, iv2)
           dec_block == aes_decrypt(aes_key, xor_block)
           result_block == xor(dec_block, iv1)
       IN result_block \o
          ige_decrypt_blocks(aes_key, SubSeq(data, BlockLen + 1, Len(data)),
                             block, result_block)

\* MTProtoCrypto.decrypt_aes_ige
decrypt_aes_ige(data, key, iv) ==
  IF Len(data) % BlockLen # 0 THEN CryptoError
  ELSE IF Len(key) < 32 THEN CryptoError
  ELSE IF Len(iv) < 32 THEN CryptoError
  ELSE Returned(ige_decrypt_blocks(SubSeq(key, 1, 32), data,
                                   SubSeq(iv, 1, BlockLen), SubSeq(iv, BlockLen + 1, 32)))

\* The blocks, the data, the keys and the ivs that are tried.
Bits == {0, 1}
Blocks == {[i \in 1..BlockLen |-> IF i = 1 THEN a ELSE IF i = BlockLen THEN b ELSE 7] :
             a, b \in Bits}

RECURSIVE Concat(_)
Concat(blocks) == IF blocks = <<>> THEN <<>> ELSE Head(blocks) \o Concat(Tail(blocks))

AlignedData == {Concat(bs) : bs \in UNION {[1..n -> Blocks] : n \in 0..MaxBlocks}}
UnalignedData ==
  {SubSeq(d, 1, Len(d) - 1) : d \in AlignedData \ {<<>>}} \cup {d \o <<5>> : d \in AlignedData}

Key32 == [i \in 1..32 |-> i % 5]
Keys == {Key32, [Key32 EXCEPT ![1] = 9], Key32 \o <<9>>, SubSeq(Key32, 1, 31)}

Iv32 == [i \in 1..32 |-> (i * 3) % 7]
Ivs == {Iv32, [Iv32 EXCEPT ![17] = 9], Iv32 \o <<9>>, SubSeq(Iv32, 1, 31)}

\* encrypt_aes_ige on data, decrypt_aes_ige on what it returned and on data
\* itself.
aes_ige(data, key, iv) ==
  /\ ret = NoRet
  /\ LET encrypted == encrypt_aes_ige(data, key, iv)
     IN ret' = [op |-> "aes_ige", data |-> data, key |-> key, iv |-> iv,
                encrypted |-> encrypted,
                decrypted |-> IF encrypted.ok THEN decrypt_aes_ige(encrypted.value, key, iv)
                              ELSE CryptoError,
                decrypted_data |-> decrypt_aes_ige(data, key, iv)]
  /\ UNCHANGED <<config, server, now, policyVars, connections, task, sockVars>>

\* The 128-bit big-endian counter of CTR mode, one added from byte pos on.
RECURSIVE increment(_, _)
increment(counter, pos) ==
  IF pos = 0 THEN counter
  ELSE IF counter[pos] = 255 THEN increment([counter EXCEPT ![pos] = 0], pos - 1)
  ELSE [counter EXCEPT ![pos] = @ + 1]

\* The counter block of keystream block j (0 for the first).
RECURSIVE counter_block(_, _)
counter_block(nonce, j) ==
  IF j = 0 THEN nonce ELSE increment(counter_block(nonce, j - 1), BlockLen)

\* Cipher(algorithms.AES(key), modes.CTR(nonce)): update(data) + finalize(),
\* the keystream starting at block first.  AES takes keys of 16, 24 and 32
\* bytes and CTR a nonce of 16 bytes; anything else raises ValueError, which
\* the callers turn into CryptoError.
ctr_update(data, key, nonce, first) ==
  IF Len(key) \notin {16, 24, 32} \/ Len(nonce) # BlockLen THEN CryptoError
  ELSE LET keystream == [j \in 0..(Len(data) \div BlockLen) |->
                          aes_encrypt(key, counter_block(nonce, first + j))]
       IN Returned([i \in 1..Len(data) |->
            XorByte(data[i], keystream[(i - 1) \div BlockLen][((i - 1) % BlockLen) + 1])])

\* key[:n], iv[:n]
prefix(s, n) == SubSeq(s, 1, Min(n, Len(s)))

\* MTProtoCrypto.encrypt_aes_ctr
encrypt_aes_ctr(data, key, iv) == ctr_update(data, prefix(key, 32), prefix(iv, 16), 0)

\* MTProtoCrypto.decrypt_aes_ctr, mutated: the keystream is one block late.
decrypt_aes_ctr_late(data, key, iv) == ctr_update(data, prefix(key, 32), prefix(iv, 16), 1)

\* MTProtoCrypto.decrypt_aes_ctr
decrypt_aes_ctr(data, key, iv) == ctr_update(data, prefix(key, 32), prefix(iv, 16), 0)

\* The 16-byte ivs that are tried: one whose counter carries into the next
\* byte, one too long and one too short.
Iv16 == [i \in 1..16 |-> (i * 3) % 7]
CtrIvs == {Iv16, [Iv16 EXCEPT ![16] = 255], Iv16 \o <<9>>, SubSeq(Iv16, 1, 15)}

\* encrypt_aes_ctr on data, decrypt_aes_ctr on what it returned.
aes_ctr(data, key, iv) ==
  /\ ret = NoRet
  /\ LET encrypted == encrypt_aes_ctr(data, key, iv)
     IN ret' = [op |-> "aes_ctr", data |-> data, key |-> key, iv |-> iv,
                encrypted |-> encrypted,
                decrypted |-> IF encrypted.ok THEN decrypt_aes_ctr(encrypted.value, key, iv)
                              ELSE CryptoError]
  /\ UNCHANGED <<config, server, now, policyVars, connections, task, sockVars>>

\* The nonces create_auth_key is tried with: the client's as bytes, the
\* server's as a length.
ClientNonces == {SubSeq(Iv32, 1, n) : n \in {0, NonceLen - 1, NonceLen, NonceLen + 1}}
ServerNonceLens == {0, NonceLen - 1, NonceLen, NonceLen + 1}

\* MTProtoCrypto.create_auth_key on two nonces.
auth_key(client_nonce, server_nonce) ==
  /\ ret = NoRet
  /\ ret' = [op |-> "create_auth_key", client_nonce |-> client_nonce,
             server_nonce |-> server_nonce,
             auth_key |-> create_auth_key(client_nonce, server_nonce)]
  /\ UNCHANGED <<config, server, now, policyVars, connections, task, sockVars>>

\* pad_data, the number of bytes it adds, mutated: nothing is added to data
\* that fills its last block.
padding_length_exact(data, block_size) == (block_size - (Len(data) % block_size)) % block_size

\* pad_data, the number of bytes it adds (crypto.py:230-232).
padding_length(data, block_size) ==
  LET n == block_size - (Len(data) % block_size)
  IN IF n = 0 THEN block_size ELSE n

\* secrets.token_bytes(n): some n bytes; three of the choices are tried.
token_bytes(n) == {[i \in 1..n |-> 0], [i \in 1..n |-> 255], [i \in 1..n |-> (i * 37) % 256]}

\* TelegramCrypto.pad_data, padding being the bytes token_bytes returned.
pad_data(data, padding) == data \o padding

\* TelegramCrypto.unpad_data
unpad_data(data, original_length) == prefix(data, original_length)

\* pad_data(data, 16), unpad_data on what it returned.
pad(data, padding) ==
  /\ ret = NoRet
  /\ LET padded == pad_data(data, padding)
     IN ret' = [op |-> "pad_data", data |-> data, padded |-> padded,
                unpadded |-> unpad_data(padded, Len(data))]
  /\ UNCHANGED <<config, server, now, policyVars, connections, task, sockVars>>

\* ----------------------------------------------------------------- secrets
\* A string is a sequence of one-character strings; None is Python's None.
None == <<"None">>

HexChars == <<"0", "1", "2", "3", "4", "5", "6", "7", "8", "9", "a", "b", "c", "d", "e", "f">>
UpperHexChars == <<"0", "1", "2", "3", "4", "5", "6", "7", "8", "9", "A", "B", "C", "D", "E", "F">>
IsHex(c) == \E n \in 1..16 : c \in {HexChars[n], UpperHexChars[n]}
HexVal(c) == (CHOOSE n \in 1..16 : c \in {HexChars[n], UpperHexChars[n]}) - 1

\* ASCII whitespace
Whitespace == {" ", "\t", "\n", "\r", "\f"}

\* The result of an operation that raises ValueError.
ValueError == [ok |-> FALSE, value |-> <<>>]

\* bytes.fromhex(s): whitespace is skipped before each pair of digits, then
\* two hexadecimal digits make a byte; anything else raises ValueError.
RECURSIVE fromhex(_)
fromhex(s) ==
  IF s = <<>> THEN Returned(<<>>)
  ELSE IF Head(s) \in Whitespace THEN fromhex(Tail(s))
  ELSE IF Len(s) < 2 \/ ~IsHex(s[1]) \/ ~IsHex(s[2]) THEN ValueError
  ELSE LET rest == fromhex(SubSeq(s, 3, Len(s)))
       IN IF rest.ok THEN Returned(<<16 * HexVal(s[1]) + HexVal(s[2])>> \o rest.value)
          ELSE ValueError

\* str.strip()
RECURSIVE strip(_)
strip(s) ==
  IF s = <<>> THEN s
  ELSE IF Head(s) \in Whitespace THEN strip(Tail(s))
  ELSE IF s[Len(s)] \in Whitespace THEN strip(SubSeq(s, 1, Len(s) - 1))
  ELSE s

\* str.lower(), on the characters that occur
lower(s) ==
  [i \in 1..Len(s) |->
     IF \E n \in 1..16 : s[i] = UpperHexChars[n]
     THEN HexChars[CHOOSE n \in 1..16 : s[i] = UpperHexChars[n]]
     ELSE IF s[i] = "X" THEN "x" ELSE s[i]]

\* int(s, 16) returns (TRUE) or raises ValueError (FALSE): an optional sign,
\* an optional 0x, then hexadecimal digits, single underscores allowed
\* between digits and after the 0x.
int16(s) ==
  LET unsigned == IF s # <<>> /\ Head(s) \in {"+", "-"} THEN Tail(s) ELSE s
      prefixed == Len(unsigned) >= 2 /\ unsigned[1] = "0" /\ unsigned[2] \in {"x", "X"}
      after == IF prefixed THEN SubSeq(unsigned, 3, Len(unsigned)) ELSE unsigned
      digits == IF prefixed /\ after # <<>> /\ Head(after) = "_" THEN Tail(after) ELSE after
  IN /\ digits # <<>>
     /\ \A i \in 1..Len(digits) :
          \/ IsHex(digits[i])
          \/ /\ digits[i] = "_"
             /\ 1 < i /\ i < Len(digits)
             /\ IsHex(digits[i - 1]) /\ IsHex(digits[i + 1])

\* MTProtoCrypto.__init__: "ok", or the exception it raises.
MTProtoCrypto(secret) ==
  IF secret = None THEN "TypeError"
  ELSE LET decoded == fromhex(secret)
       IN IF ~decoded.ok THEN "ValueError"
          ELSE IF Len(decoded.value) # SecretLen THEN "CryptoError"
          ELSE "ok"

\* crypto.validate_proxy_secret
validate_proxy_secret(secret) ==
  IF secret = None \/ secret = <<>> \/ Len(secret) # 32 THEN FALSE
  ELSE fromhex(secret).ok

\* utils.validate_secret
validate_secret(secret) ==
  IF secret = None \/ secret = <<>> THEN FALSE
  ELSE LET stripped == lower(strip(secret))
       IN IF Len(stripped) # 32 THEN FALSE ELSE int16(stripped)

\* The secrets that are tried: runs of one hexadecimal digit and pairs of
\* digits separated by blanks, between a prefix and a suffix; None and the
\* strings of the tests.
Run(c, n) == [i \in 1..n |-> c]
Pairs(k) == [i \in 1..(3 * k - 1) |-> IF i % 3 = 0 THEN " " ELSE "a"]
HexLens == {0, 28, 29, 30, 31, 32, 33}
Bodies == {Run(c, n) : c \in {"a", "F", "0"}, n \in HexLens} \cup {Pairs(11), Pairs(16)}
Prefixes == {<<>>, <<" ">>, <<"0", "x">>, <<"+">>, <<"a", "_">>}
Suffixes == {<<>>, <<"\n">>, <<"g">>}
SecretStrings ==
  {p \o b \o q : p \in Prefixes, b \in Bodies, q \in Suffixes}
    \cup {None, Run("x", 32),
          <<"i", "n", "v", "a", "l", "i", "d", "_", "s", "e", "c", "r", "e", "t">>,
          <<"t", "o", "o", "_", "s", "h", "o", "r", "t">>}

\* The three checks of a secret, on the same string.
check_secret(secret) ==
  /\ ret = NoRet
  /\ ret' = [op |-> "secret", secret |-> secret,
             MTProtoCrypto |-> MTProtoCrypto(secret),
             validate_proxy_secret |-> validate_proxy_secret(secret),
             validate_secret |-> validate_secret(secret)]
  /\ UNCHANGED <<config, server, now, policyVars, connections, task, sockVars>>

\* Config(path) for a path with no file, no environment variable set: the
\* dictionary of sections is copied from DEFAULT_CONFIG, nothing is loaded,
\* and _validate_config generates a secret (and saves it to the new path)
\* if the section holds none.  The object reports the section it sees.
Config_new(generated) ==
  /\ LET data == copy(config.DEFAULT_CONFIG)
         seen == config.dicts[data.server]
         valid == IF seen.secret = "None" THEN [seen EXCEPT !.secret = generated] ELSE seen
     IN /\ config' = [config EXCEPT !.dicts[data.server] = valid]
        /\ ret' = [op |-> "Config", server |-> valid]
  /\ UNCHANGED <<server, now, policyVars, connections, task, sockVars>>

\* ------------------------------------------------ start, stop and restart
\* server.py:25-46: the server as MTProxyServer.__init__ leaves it; running
\* is False and no listener exists until start().
InitConstructed ==
  /\ config = InitConfig
  /\ server = "stopped"
  /\ now = 0
  /\ clients = [ip \in IPs |-> NoClient]
  /\ blocked_ips \in {{}, {"ip1"}}
  /\ allowed_ips \in {{}, {"ip1"}}
  /\ active_connections = <<>>
  /\ connections = <<>>
  /\ stats = [total_connections |-> 0, active_connections |-> 0,
              blocked_connections |-> 0, total_bytes_sent |-> 0,
              total_bytes_received |-> 0]
  /\ task = [c \in AllConns |-> NewTask]
  /\ cli = [c \in AllConns |-> NewClientSocket]
  /\ tg = [c \in AllConns |-> NewRemoteSocket]
  /\ pump = [c \in AllConns |-> NewPumps]
  /\ ret = NoRet

\* server.py:63-94: start() returns at once on a running server; otherwise
\* it raises ServerError when the port is taken (free = FALSE) and else
\* opens the listener and sets running.
start(free) ==
  /\ server \in {"stopped", "running"}
  /\ IF server = "running"
       THEN /\ ret' = [op |-> "start", value |-> "already running"]
            /\ UNCHANGED server
       ELSE IF ~free
              THEN /\ ret' = [op |-> "start", value |-> "ServerError"]
                   /\ UNCHANGED server
              ELSE /\ server' = "running"
                   /\ ret' = [op |-> "start", value |-> "started"]
  /\ UNCHANGED <<config, now, policyVars, connections, task, sockVars>>

\* server.py:170-174: stop() on a server whose running flag is False
stop_not_running ==
  /\ server # "running"
  /\ ret' = [op |-> "stop", value |-> "not running"]
  /\ UNCHANGED <<config, server, now, policyVars, connections, task, sockVars>>

\* server.py:208-213: restart() awaits stop(), sleeps a second and awaits
\* start().  On a running server it enters stop() (server.py:170-186), and
\* the sleep and start() come after stop() returns; on a stopped server
\* stop() returns at once and start() opens the listener.
restart ==
  /\ server \in {"stopped", "running"}
  /\ server' = IF server = "running" THEN "closing" ELSE "running"
  /\ ret' = [op |-> "restart", was |-> server]
  /\ UNCHANGED <<config, now, policyVars, connections, task, sockVars>>

\* ------------------------------------------------- the security settings
\* config.py:38-42: the 'security' section of DEFAULT_CONFIG; the bound
\* RateLimit stands for the built-in rate_limit of 100.
BuiltinSecurity == [allowed_ips |-> {}, banned_ips |-> {}, rate_limit |-> RateLimit]

\* The 'security' sections a configuration file sets.
SecuritySections ==
  [allowed_ips : {{}, {"ip2"}}, banned_ips : {{}, {"ip1"}}, rate_limit : {1, RateLimit}]

\* Config.__init__ for a file with the section security (config.py:55-60,
\* 100-113): the file's values are laid over the built-in ones.
Config_security(security) ==
  InitConfig @@ [security |-> [k \in DOMAIN BuiltinSecurity |-> security[k]]]

\* config.py:240-242: Config.get_server_config, a copy of the 'server' section
get_server_config(cfg) == cfg.dicts[cfg.data.server]

\* dict.get(key, default)
dict_get(d, key, default) == IF key \in DOMAIN d THEN d[key] ELSE default

\* handler.py:36-49: the policy fields ConnectionHandler.__init__ takes from
\* the dict it is given; the bound RateLimit stands for the default of 100.
ConnectionHandler_init(cfg) ==
  [blocked_ips |-> dict_get(cfg, "banned_ips", {}),
   allowed_ips |-> dict_get(cfg, "allowed_ips", {}),
   rate_limit |-> dict_get(cfg, "rate_limit", RateLimit)]

\* server.py:28-34: MTProxyServer.__init__ builds the Config and hands
\* Config.get_server_config() to the ConnectionHandler; start() has run.
InitSecurity ==
  \E security \in SecuritySections :
    LET cfg == Config_security(security)
        handler == ConnectionHandler_init(get_server_config(cfg))
    IN /\ config = cfg
       /\ server = "running"
       /\ now = 0
       /\ clients = [ip \in IPs |-> NoClient]
       /\ blocked_ips = handler.blocked_ips
       /\ allowed_ips = handler.allowed_ips
       /\ handler.rate_limit = RateLimit
       /\ active_connections = <<>>
       /\ connections = <<>>
       /\ stats = [total_connections |-> 0, active_connections |-> 0,
                   blocked_connections |-> 0, total_bytes_sent |-> 0,
                   total_bytes_received |-> 0]
       /\ task = [c \in AllConns |-> NewTask]
       /\ cli = [c \in AllConns |-> NewClientSocket]
       /\ tg = [c \in AllConns |-> NewRemoteSocket]
       /\ pump = [c \in AllConns |-> NewPumps]
       /\ ret = NoRet

\* ------------------------------------------------------- specifications
\* The connection path in detail: every step of a session from the accept to
\* the end of the relay; the clients in Talkers send data, the others are
\* silent.
Next ==
  \/ \E c \in Sessions, ip \in IPs : handle_client(c, ip)
  \/ \E c \in Sessions : RejectClosed(c)
  \/ \E c \in Sessions : handle_connection(c)
  \/ \E c \in Sessions, lost \in BOOLEAN : perform_handshake(c, lost)
  \/ \E c \in Sessions : HandshakeTimeout(c)
  \/ \E c \in Sessions : connect_to_telegram(c)
  \/ \E c \in Sessions : ConnectFail(c)
  \/ \E c \in Sessions, d \in Dirs, blocks \in BOOLEAN : forward_data(c, d, blocks)
  \/ \E c \in Sessions, d \in Dirs : PumpEOF(c, d)
  \/ \E c \in Sessions, d \in Dirs : PumpDrained(c, d)
  \/ \E c \in Sessions, d \in Dirs : PumpError(c, d)
  \/ \E c \in Sessions : proxy_data_done(c)
  \/ \E c \in Sessions : RemoteClosed(c)
  \/ \E c \in Sessions : OverallTimeout(c)
  \/ \E c \in Sessions, d \in Dirs : Flushed(c, d)
  \/ \E c \in Sessions : SessionClosed(c)
  \/ \E c \in Sessions, n \in Segments : ClientSend(c, n)
  \/ \E c \in Sessions : ClientEOF(c)
  \/ \E c \in Sessions, n \in RemoteSegments : RemoteSend(c, n)
  \/ \E c \in Sessions : RemoteEOF(c)

Spec == Init /\ [][Next]_vars

\* The admission policy over time: the clients stay silent, so that every
\* admitted session ends with the handshake timeout; the administrator
\* unblocks addresses and the clock advances.
NextPolicy ==
  \/ \E c \in Conns, ip \in IPs : handle_client(c, ip)
  \/ \E c \in Conns : RejectClosed(c)
  \/ \E c \in Conns : handle_connection(c)
  \/ \E c \in Conns : HandshakeTimeout(c)
  \/ \E c \in Conns : SessionClosed(c)
  \/ \E ip \in IPs : unblock_client(ip)
  \/ Tick

SpecPolicy == Init /\ [][NextPolicy]_vars

\* The rate-limit window of one address: connections of ip1 alone, enough of
\* them to fill one window and the start of the next.
NextWindow ==
  \/ \E c \in WindowConns : handle_client(c, "ip1")
  \/ \E c \in WindowConns : RejectClosed(c)
  \/ \E c \in WindowConns : handle_connection(c)
  \/ \E c \in WindowConns : HandshakeTimeout(c)
  \/ \E c \in WindowConns : SessionClosed(c)
  \/ Tick

SpecWindow == Init /\ [][NextWindow]_vars

\* Every way a connection ends before the relay: the policy rejections and
\* the handshake, with the remote endpoint out of reach.
NextReject ==
  \/ \E c \in Conns, ip \in IPs : handle_client(c, ip)
  \/ \E c \in Conns : RejectClosed(c)
  \/ \E c \in Conns : handle_connection(c)
  \/ \E c \in Conns, lost \in BOOLEAN : perform_handshake(c, lost)
  \/ \E c \in Conns : HandshakeTimeout(c)
  \/ \E c \in Conns : ConnectFail(c)
  \/ \E c \in Conns : SessionClosed(c)
  \/ \E c \in Conns, n \in Segments : ClientSend(c, n)
  \/ \E c \in Conns : ClientEOF(c)

SpecReject == Init /\ [][NextReject]_vars

\* The detailed path with the administrator: sessions are closed by id, the
\* table is cleared.
NextAdmin ==
  \/ Next
  \/ \E c \in Sessions : mtproto_close_connection(c)
  \/ close_all_connections

SpecAdmin == Init /\ [][NextAdmin]_vars

\* The steps of connection c that the event loop runs as soon as they are
\* ready, whatever the peers and the timers do.
LoopStep(c) ==
  \/ RejectClosed(c)
  \/ handle_connection(c)
  \/ \E lost \in BOOLEAN : perform_handshake(c, lost)
  \/ \E d \in Dirs, blocks \in BOOLEAN : forward_data(c, d, blocks)
  \/ \E d \in Dirs : PumpEOF(c, d)
  \/ proxy_data_done(c)
  \/ RemoteClosed(c)
  \/ SessionClosed(c)

\* The detailed path under the scheduling of the event loop: a task that is
\* ready runs.  Nothing is assumed of the peers, nor of the time a timeout
\* takes to expire.
SpecLoop == Spec /\ \A c \in Sessions : WF_vars(LoopStep(c))

\* The detailed path under the scheduling of the event loop and with its
\* timers: the overall timeout of a session expires if the session does not
\* end before.  Nothing is assumed of the peers.
SpecTimed == SpecLoop /\ \A c \in Sessions : WF_vars(OverallTimeout(c))

\* The handshake as a function of the bytes read: every preamble that is
\* tried, whole or short.
NextHandshake == \E handshake \in Preambles \cup ShortPreambles : process_handshake(handshake)

SpecHandshake == Init /\ [][NextHandshake]_vars

\* The detailed path with the shutdown of the server.
NextStop ==
  \/ Next
  \/ stop
  \/ \E again \in SUBSET Sessions : stop_background_tasks(again)

\* The shutdown under the scheduling of the event loop: ready tasks run, and
\* the sleep of _close_connections ends.
SpecStop ==
  /\ Init /\ [][NextStop]_vars
  /\ \A c \in Sessions : WF_vars(LoopStep(c))
  /\ WF_vars(\E again \in SUBSET Sessions : stop_background_tasks(again))

\* The endpoint table as a function of the overlay file.
NextOverlay == \E file \in Files : load_official_config(file)

SpecOverlay == Init /\ [][NextOverlay]_vars

\* The client records over time: sessions of silent clients come and go, the
\* clock advances, and the maintenance task cleans up.
NextCleanup ==
  \/ \E c \in Sessions, ip \in IPs : handle_client(c, ip)
  \/ \E c \in Sessions : RejectClosed(c)
  \/ \E c \in Sessions : handle_connection(c)
  \/ \E c \in Sessions : HandshakeTimeout(c)
  \/ \E c \in Sessions : SessionClosed(c)
  \/ \E max_age \in MaxAges : cleanup_old_clients(max_age)
  \/ Tick

SpecCleanup == Init /\ [][NextCleanup]_vars

\* Handshakes and reloads of the configuration: the administrator writes the
\* file and has the server reload it; clients send preambles.
NextReload ==
  \/ \E file \in ConfigFiles : write_file(file)
  \/ \E generated \in Secrets : reload_config(generated)
  \/ \E handshake \in Preambles : process_handshake(handshake)

SpecReload == Init /\ [][NextReload]_vars

\* The crypto operations as functions of their arguments: one is applied,
\* once.
NextCrypto ==
  /\ ret = NoRet
  /\ \/ \E data \in AlignedData \cup UnalignedData, key \in Keys, iv \in Ivs :
          aes_ige(data, key, iv)
     \/ \E data \in AlignedData \cup UnalignedData, key \in Keys, iv \in CtrIvs :
          aes_ctr(data, key, iv)
     \/ \E client_nonce \in ClientNonces, server_nonce \in ServerNonceLens :
          auth_key(client_nonce, server_nonce)
     \/ \E data \in AlignedData \cup UnalignedData :
          \E padding \in token_bytes(padding_length(data, BlockLen)) : pad(data, padding)

SpecCrypto == Init /\ [][NextCrypto]_vars

\* The checks of a secret as functions of the string.
NextSecret == \E secret \in SecretStrings : check_secret(secret)

SpecSecret == Init /\ [][NextSecret]_vars

\* The Config object under set, save and reload, and the file under the
\* administrator's editor.
NextConfig ==
  \/ \E file \in ConfigFiles : write_file(file)
  \/ \E value \in Secrets : config_set("secret", value)
  \/ \E value \in Timeouts : config_set("timeout", value)
  \/ config_save
  \/ \E generated \in Secrets : config_reload(generated)
  \/ \E generated \in Secrets : Config_new(generated)

SpecConfig == Init /\ [][NextConfig]_vars

\* The statistics: connections with and without a peer address arrive, are
\* rejected or admitted, and end.
NextStats ==
  \/ \E c \in Conns, ip \in IPs : handle_client(c, ip)
  \/ \E c \in Conns : handle_client_nopeer(c)
  \/ \E c \in Conns : RejectClosed(c)
  \/ \E c \in Conns : NoPeerClosed(c)
  \/ \E c \in Conns : handle_connection(c)
  \/ \E c \in Conns : HandshakeTimeout(c)
  \/ \E c \in Conns : SessionClosed(c)

SpecStats == Init /\ [][NextStats]_vars

\* The deny-list and the record of one address under admissions, rate-limit
\* blocks, unblock_client, the sweep and the clock.
\* A rate-limit block takes RateLimit admissions and one more connection;
\* one more comes after the block.
BlockConns == 1..(RateLimit + 2)

NextBlock ==
  \/ \E c \in BlockConns : handle_client(c, "ip1")
  \/ \E c \in BlockConns : RejectClosed(c)
  \/ \E c \in BlockConns : handle_connection(c)
  \/ \E c \in BlockConns : HandshakeTimeout(c)
  \/ \E c \in BlockConns : SessionClosed(c)
  \/ unblock_client("ip1")
  \/ \E max_age \in MaxAges : cleanup_old_clients(max_age)
  \/ Tick

SpecBlock == Init /\ [][NextBlock]_vars

\* The life of the server from its construction: start, stop and restart
\* beside the sessions, under the scheduling of the event loop.
NextRestart ==
  \/ NextStop
  \/ \E free \in BOOLEAN : start(free)
  \/ stop_not_running
  \/ restart

SpecRestart ==
  /\ InitConstructed /\ [][NextRestart]_vars
  /\ \A c \in Sessions : WF_vars(LoopStep(c))
  /\ WF_vars(\E again \in SUBSET Sessions : stop_background_tasks(again))

\* The admission policy of a server built from a configuration file that
\* sets the 'security' section.
SpecSecurity == InitSecurity /\ [][NextPolicy]_vars

\* ---------------------------------------------------------------- claims
\* The connections of ip that were admitted in the window that starts at w.
AdmittedInWindow(ip, w) ==
  {d \in AllConns : /\ task[d].verdict = "admit" /\ task[d].ip = ip
                    /\ w <= task[d].at /\ task[d].at < w + Window}

\* C1: every new connection from an address in the deny-list is rejected by
\* the security check, whether or not the address is also in a non-empty
\* allow-list: it is never registered as a session.
C1_DenyListedRejected ==
  [][\A c \in Conns :
       (task[c].pc = "idle" /\ task'[c].pc # "idle" /\ task'[c].ip \in blocked_ips)
         => /\ task'[c].verdict = "deny"
            /\ task'[c].pc = "rej_closing"
            /\ c \notin DOMAIN active_connections'
            /\ stats'.blocked_connections = stats.blocked_connections + 1]_vars

\* C1, witness: a connection was rejected for the deny-list although its
\* address is a member of the non-empty allow-list.
C1_Witness ==
  \E c \in Conns : /\ task[c].verdict = "deny"
                   /\ allowed_ips # {} /\ task[c].ip \in allowed_ips

\* C2 as stated: once RateLimit connections of an address were admitted in
\* its window and the window is still open, the next connection of the
\* address is rejected, the address is in the deny-list and its record is
\* flagged blocked with the rate-limit reason.
C2_Original ==
  [][\A c \in Conns :
       (/\ task[c].pc = "idle" /\ task'[c].pc # "idle"
        /\ clients[task'[c].ip] # NoClient
        /\ now - clients[task'[c].ip].connect_time < Window
        /\ Cardinality(AdmittedInWindow(task'[c].ip,
                                        clients[task'[c].ip].connect_time)) >= RateLimit)
         => /\ task'[c].pc = "rej_closing"
            /\ task'[c].ip \in blocked_ips'
            /\ clients'[task'[c].ip].blocked
            /\ clients'[task'[c].ip].block_reason = "Rate limit exceeded"]_vars

\* C2, amended: the same, for an address that has fewer than
\* MaxConnectionsPerIp live sessions; an address at the cap is rejected as
\* well, but neither deny-listed nor flagged.
C2_RateLimitBlocks ==
  [][\A c \in Conns :
       (/\ task[c].pc = "idle" /\ task'[c].pc # "idle"
        /\ clients[task'[c].ip] # NoClient
        /\ now - clients[task'[c].ip].connect_time < Window
        /\ Cardinality(AdmittedInWindow(task'[c].ip,
                                        clients[task'[c].ip].connect_time)) >= RateLimit)
         => /\ task'[c].pc = "rej_closing"
            /\ ClientConnections(task'[c].ip) < MaxConnectionsPerIp
                 => /\ task'[c].ip \in blocked_ips'
                    /\ clients'[task'[c].ip].blocked
                    /\ clients'[task'[c].ip].block_reason = "Rate limit exceeded"]_vars

\* C2, witness: a connection was rejected by the window limit, its address is
\* deny-listed and flagged.
C2_Witness ==
  \E c \in Conns : /\ task[c].verdict = "rate"
                   /\ task[c].ip \in blocked_ips
                   /\ clients[task[c].ip].blocked

\* C3: the sessions registered for one address never exceed
\* MaxConnectionsPerIp, and a connection that arrives while the address is at
\* the cap is rejected.
C3_PerIpCap ==
  [][\A ip \in IPs :
       /\ ClientConnections(ip)' <= MaxConnectionsPerIp
       /\ \A c \in Conns :
            (/\ task[c].pc = "idle" /\ task'[c].pc # "idle" /\ task'[c].ip = ip
             /\ ClientConnections(ip) >= MaxConnectionsPerIp)
              => /\ task'[c].pc = "rej_closing"
                 /\ ClientConnections(ip)' = ClientConnections(ip)]_vars

\* C3, witness: an address has MaxConnectionsPerIp live sessions and a further
\* connection of it was rejected for the cap.
C3_Witness ==
  \E c \in Conns : /\ task[c].verdict = "cap"
                   /\ ClientConnections(task[c].ip) = MaxConnectionsPerIp

\* C4 as stated (sliding window): no interval of Window seconds holds more
\* than RateLimit admissions of one address.
C4_Original ==
  \A ip \in IPs : \A t \in 0..MaxTime :
    Cardinality(AdmittedInWindow(ip, t)) <= RateLimit

\* C4, amended (fixed window): every admission is counted in a window that
\* starts at an admission of the address, and at most RateLimit admissions
\* of the address fall less than Window seconds after the start of the window
\* they are counted in.
C4_FixedWindow ==
  \A c \in WindowConns :
    task[c].verdict = "admit"
      => /\ task[c].win <= task[c].at
         /\ \E d \in WindowConns : /\ task[d].verdict = "admit"
                                   /\ task[d].ip = task[c].ip
                                   /\ task[d].at = task[c].win
         /\ Cardinality({d \in AdmittedInWindow(task[c].ip, task[c].win) :
                           task[d].win = task[c].win}) <= RateLimit

\* C4, witness: a window of an address is full and a later window of the
\* same address has begun.
C4_Witness ==
  \E c, d \in WindowConns :
    /\ task[c].verdict = "admit" /\ task[d].verdict = "admit"
    /\ task[c].ip = task[d].ip
    /\ task[d].win > task[c].win
    /\ Cardinality(AdmittedInWindow(task[c].ip, task[c].win)) = RateLimit

\* C5: unblock_client(ip) on a deny-listed address removes it from the
\* deny-list, clears the blocked flag and the reason of its record and
\* returns True; the record's window start and connection count, every other
\* record, the allow-list and all sessions stay as they were.  On an address
\* that is not deny-listed it returns False and changes nothing.
C5_UnblockFrame ==
  [][ret'.op = "unblock_client" =>
       LET ip == ret'.ip IN
       /\ ret'.value = (ip \in blocked_ips)
       /\ blocked_ips' = blocked_ips \ {ip}
       /\ \A other \in IPs \ {ip} : clients'[other] = clients[other]
       /\ IF ip \in blocked_ips /\ clients[ip] # NoClient
          THEN clients'[ip] = [clients[ip] EXCEPT !.blocked = FALSE,
                                                  !.block_reason = ""]
          ELSE clients'[ip] = clients[ip]
       /\ UNCHANGED <<config, server, now, allowed_ips, active_connections, connections, stats,
                      task, cli, tg, pump>>]_vars

\* C5, witness: unblock_client returned True for an address whose record had
\* been blocked by the rate limit and still has its full window.
C5_Witness ==
  /\ ret.op = "unblock_client" /\ ret.value
  /\ clients[ret.ip] # NoClient
  /\ clients[ret.ip].connection_count >= RateLimit
  /\ ~clients[ret.ip].blocked
  /\ \E c \in Conns : task[c].verdict = "rate" /\ task[c].ip = ret.ip

\* The steps of the session life cycle the claim allows.
StatedEdges ==
  {<<"Accepted", "Admitted">>, <<"Accepted", "Rejected">>,
   <<"Admitted", "Handshaking">>, <<"Handshaking", "Relaying">>,
   <<"Relaying", "Closed">>}

\* The steps a failed handshake and a failed remote connection take.
FailureEdges ==
  {<<"Handshaking", "Rejected">>, <<"Handshaking", "Closed">>}

\* C6 as stated: a connection moves only along Accepted -> Admitted or
\* Rejected, Admitted -> Handshaking -> Relaying -> Closed.
C6_Original ==
  \A c \in Sessions :
    /\ task[c].path # <<>> => task[c].path[1] = "Accepted"
    /\ \A i \in 1..(Len(task[c].path) - 1) :
         <<task[c].path[i], task[c].path[i + 1]>> \in StatedEdges

\* C6, amended: a connection moves only along the stated steps and, from
\* Handshaking, to Rejected when the handshake fails and to Closed when the
\* remote connection fails or the session times out; it is in Relaying only
\* if it was admitted, its handshake took the whole preamble and answered it,
\* and the remote connection is open; once it is Rejected or Closed, its
\* state does not change and nothing is read from or written to its sockets.
\* Stated of every step that changes something of the connection.
C6_LifeCycle ==
  [][\A c \in Sessions :
       (task'[c] # task[c] \/ cli'[c] # cli[c] \/ tg'[c] # tg[c] \/ pump'[c] # pump[c])
       => /\ task'[c].path # <<>> /\ task'[c].path[1] = "Accepted"
          /\ \A i \in 1..(Len(task'[c].path) - 1) :
               <<task'[c].path[i], task'[c].path[i + 1]>> \in StatedEdges \cup FailureEdges
          /\ (\E i \in 1..Len(task'[c].path) : task'[c].path[i] = "Relaying")
               => /\ task'[c].verdict = "admit"
                  /\ cli'[c].hs_consumed = PreambleLen /\ cli'[c].responded
                  /\ tg'[c].opened
          /\ (task[c].path # <<>> /\ task[c].path[Len(task[c].path)] \in {"Rejected", "Closed"})
               => /\ task'[c].path = task[c].path
                  /\ cli'[c].consumed = cli[c].consumed /\ cli'[c].wrote = cli[c].wrote
                  /\ tg'[c].consumed = tg[c].consumed /\ tg'[c].wrote = tg[c].wrote
                  /\ tg'[c].opened = tg[c].opened
                  /\ pump'[c] = pump[c]]_vars

\* C6, witness: one session went the whole way to Closed and another was
\* rejected in the handshake.
C6_Witness ==
  \E c, d \in Sessions :
    /\ task[c].path = <<"Accepted", "Admitted", "Handshaking", "Relaying", "Closed">>
    /\ task[c].pc = "done"
    /\ task[d].path = <<"Accepted", "Admitted", "Handshaking", "Rejected">>

\* C7: a connection that the policy rejected, or whose handshake failed for
\* its preamble, a timeout, the validation or the cryptography, got no byte
\* written to it and no remote connection was opened or attempted for it.
C7_NothingWritten ==
  \A c \in Conns :
    task[c].fail \in {"policy", "hs_short", "hs_timeout", "hs_invalid", "hs_crypto"}
      => /\ cli[c].wrote = 0
         /\ ~tg[c].opened /\ tg[c].attempts = 0
         /\ c \notin DOMAIN connections

\* C7, witness: a connection rejected for the per-IP cap, one whose preamble
\* was short and one whose handshake timed out, all of them closed.
C7_Witness ==
  \E c, d, e \in Conns :
    /\ task[c].verdict = "cap" /\ cli[c].closed
    /\ task[d].fail = "hs_short" /\ cli[d].closed /\ cli[d].consumed > 0
    /\ task[e].fail = "hs_timeout" /\ cli[e].closed

\* C8: the handshake takes no client byte beyond the 64th; the relay reads
\* from the client only after the handshake took exactly 64 bytes and its
\* response was written; every client byte read after the 64th went to the
\* remote endpoint as relay data.
C8_HandshakeThenRelay ==
  \A c \in Sessions :
    /\ cli[c].hs_consumed <= PreambleLen
    /\ (pump[c]["c2t"] # "none" \/ cli[c].consumed > cli[c].hs_consumed)
         => /\ cli[c].hs_consumed = PreambleLen
            /\ cli[c].responded /\ cli[c].wrote >= ResponseLen
    /\ tg[c].wrote = cli[c].consumed - cli[c].hs_consumed

\* C8, witness: the client sent more than the preamble before the handshake
\* read; the handshake took 64 bytes and the relay forwarded the rest.
C8_Witness ==
  \E c \in Sessions :
    /\ task[c].pc = "relaying"
    /\ cli[c].hs_consumed = PreambleLen
    /\ cli[c].consumed = MaxClientBytes
    /\ tg[c].wrote = MaxClientBytes - PreambleLen

\* C9 as stated: the handshake is rejected for its preamble only when the
\* client closed after fewer than 64 bytes in total (a preamble that arrives
\* in several segments is waited for).
C9_Original ==
  \A c \in Sessions :
    task[c].fail = "hs_short" => cli[c].eof /\ cli[c].sent < PreambleLen

SessionOver(c) ==
  /\ task[c].pc = "done"
  /\ cli[c].closed /\ ~cli[c].unsent
  /\ tg[c].opened => (tg[c].closed /\ ~tg[c].unsent)
  /\ \A d \in Dirs : pump[c][d] \in {"none", "done"}
  /\ c \notin DOMAIN connections
  /\ c \notin DOMAIN active_connections

\* C11 as stated: once the overall timeout of a session has expired, in
\* whatever state, its pumps are cancelled, both its sockets get closed and
\* it leaves the registry: the session is over without the help of its peers.
C11_Original ==
  \A c \in Sessions : (task[c].fail = "timeout") ~> SessionOver(c)

\* C12: a session whose remote connection failed made exactly one connect
\* attempt and never started a pump: no client byte beyond the preamble was
\* read or relayed, its client socket is closed, it has left
\* MTProtoHandler.connections and is on its way out of the handler's table
\* (gone from it once its task has returned).
C12_ConnectFailureAborts ==
  \A c \in Sessions :
    task[c].fail = "connect"
      => /\ tg[c].attempts = 1 /\ ~tg[c].opened
         /\ pump[c] = NewPumps
         /\ tg[c].wrote = 0 /\ cli[c].consumed = cli[c].hs_consumed
         /\ cli[c].closed /\ ~cli[c].unsent
         /\ c \notin DOMAIN connections
         /\ task[c].pc \in {"mt_closing", "done"}
         /\ task[c].pc = "done" => c \notin DOMAIN active_connections
         /\ \A i \in 1..Len(task[c].path) : task[c].path[i] # "Relaying"

\* C12, witness: the remote connection of a session failed while its client
\* had already sent bytes beyond the preamble; the session is gone.
C12_Witness ==
  \E c \in Sessions :
    /\ task[c].fail = "connect" /\ task[c].pc = "done"
    /\ cli[c].sent > PreambleLen
    /\ cli[c].hs_consumed = PreambleLen

\* No session is in flight: every connection that arrived is over.
NoSessionInFlight == \A c \in Sessions : task[c].pc = "idle" \/ SessionOver(c)

\* C13: the shutdown of the server cancels every session in flight and waits
\* for them: once stop() has begun, a moment comes when no session task runs,
\* every client and remote socket is closed and the registries are empty.
C13_Original == (server = "closing") ~> NoSessionInFlight

\* C14: the administrator's close of one session terminates that session, its
\* pumps stop and its sockets are closed, and leaves the registry entry, the
\* sockets, the pumps and the counters of every other session unchanged.
C14_Original ==
  [][\A c \in Sessions :
       (ret'.op = "close_connection" /\ ret'.id = c /\ task[c].pc \notin {"idle", "done"})
       => /\ cli'[c].closed
          /\ tg'[c].opened => tg'[c].closed
          /\ \A d \in Dirs : pump'[c][d] \in {"none", "done"}
          /\ c \notin DOMAIN connections'
          /\ \A o \in Sessions \ {c} :
               /\ (o \in DOMAIN connections) = (o \in DOMAIN connections')
               /\ o \in DOMAIN connections => connections'[o] = connections[o]
               /\ cli'[o] = cli[o] /\ tg'[o] = tg[o] /\ pump'[o] = pump[o]
               /\ task'[o] = task[o]]_vars

\* C15: every accepted connection eventually reaches a terminal state, on
\* every path, and then its entry is absent from
\* ConnectionHandler.active_connections and from MTProtoHandler.connections
\* and its client socket is closed.
C15_Original ==
  \A c \in Sessions :
    (task[c].pc # "idle")
      ~> /\ task[c].pc = "done"
         /\ c \notin DOMAIN active_connections
         /\ c \notin DOMAIN connections
         /\ cli[c].closed

\* C16: the byte counters of a session advance with every chunk, so that at
\* the close of the session the aggregate total_bytes_sent and
\* total_bytes_received and the totals of the client record of its address
\* grow by exactly the bytes the session transferred (read from the client,
\* written to the client), here for the sessions that came to relay.
C16_Original ==
  [][\A c \in Sessions :
       (/\ task[c].pc = "mt_closing" /\ task'[c].pc = "done"
        /\ \E i \in DOMAIN task[c].path : task[c].path[i] = "Relaying"
        /\ clients[task[c].ip] # NoClient)
       => /\ stats'.total_bytes_received = stats.total_bytes_received + cli[c].consumed
          /\ stats'.total_bytes_sent = stats.total_bytes_sent + cli[c].wrote
          /\ clients'[task[c].ip].bytes_received =
               clients[task[c].ip].bytes_received + cli[c].consumed
          /\ clients'[task[c].ip].bytes_sent =
               clients[task[c].ip].bytes_sent + cli[c].wrote]_vars

\* The connections that failed: rejected by the policy, or ended by a short
\* or timed-out handshake, a refused write, a failed connect, or a timeout.
Failed == {c \in AllConns : task[c].fail # "none"}

\* The connections the admission policy rejected.
PolicyRejected == {c \in AllConns : task[c].verdict \notin {"none", "admit"}}

SessionState(o) ==
  <<task[o], cli[o], tg[o], pump[o],
    IF o \in DOMAIN connections THEN <<connections[o]>> ELSE <<>>,
    IF o \in DOMAIN active_connections THEN <<active_connections[o]>> ELSE <<>>>>

\* C18: a failure of one session stays in that session: the step in which it
\* fails (a policy rejection, a failed handshake, a failed connect, a pump
\* that ends, a timeout) and every step of its cleanup leave the registry
\* entries, the sockets, the pumps and the byte counters of every other live
\* session unchanged, and the server goes on.
C18_FailureContained ==
  [][\A c \in Sessions :
       (/\ task'[c].fail # "none" \/ \E d \in Dirs : pump[c][d] # "done" /\ pump'[c][d] = "done"
        /\ <<task[c], cli[c], tg[c], pump[c]>> # <<task'[c], cli'[c], tg'[c], pump'[c]>>)
       => /\ server' = server
          /\ \A o \in Sessions \ {c} :
               task[o].pc \notin {"idle", "done"} => SessionState(o)' = SessionState(o)]_vars

\* C18, witness: a session failed and is gone while an earlier session, live
\* all along, is relaying and has counted bytes of the relay.
C18_Witness ==
  \E c, o \in Sessions :
    /\ o < c
    /\ task[c].fail \in {"hs_short", "hs_timeout", "connect", "timeout"}
    /\ task[c].pc = "done"
    /\ task[o].pc = "relaying" /\ task[o].fail = "none"
    /\ o \in DOMAIN connections /\ connections[o].bytes_received > PreambleLen

C20_HandshakeTotal ==
  (ret.op = "handshake" /\ Len(ret.handshake) = PreambleLen)
    => /\ ret.accepted
       /\ ret.response = ResponseLen
       /\ ret.auth_key = 32
       /\ ret.dc_id \in 1..5
       /\ \A p \in Preambles :
            SubSeq(p, 1, 16) = SubSeq(ret.handshake, 1, 16)
              => extract_dc_from_handshake(p) = ret.dc_id

\* C20, witness: a preamble that differs from the all-zero one in its first 16
\* bytes and beyond them was accepted, with the fourth of the endpoints.
C20_Witness ==
  /\ ret.op = "handshake" /\ Len(ret.handshake) = PreambleLen
  /\ ret.accepted /\ ret.dc_id = 4 /\ ret.response = ResponseLen
  /\ ret.handshake[16] # 0 /\ ret.handshake[17] # 0 /\ ret.handshake[PreambleLen] # 0

\* The ids that are looked up: the built-in ones, the overlaid ones, others.
LookupIds == 0..8

\* The last well-formed entry of the file for an id, as a set: empty if there
\* is none.
LastEntry(file, id) ==
  LET at == {i \in DOMAIN file : file[i].kind = "entry" /\ file[i].id = id}
  IN {<<file[i].host, file[i].port>> : i \in {j \in at : \A k \in at : k <= j}}

\* What the lookup of an id is to return after the file was loaded.
Endpoint(file, id) ==
  LET known(i) == IF LastEntry(file, i) # {} THEN LastEntry(file, i)
                  ELSE IF i \in BuiltinIds THEN {telegram_dcs_builtin[i]}
                  ELSE {}
  IN IF known(id) # {} THEN known(id) ELSE known(1)

\* C21: after the overlay is loaded the lookup of an id returns the host and
\* port of the last well-formed proxy_for line for that id if there is one,
\* otherwise the built-in entry, and for an id in neither the entry of
\* endpoint 1; a malformed line changes no entry and does not stop the lines
\* after it.
C21_OverlayLookup ==
  ret.op = "load_official_config"
    => \A id \in LookupIds : {lookup_dc(ret.telegram_dcs, id)} = Endpoint(ret.file, id)

\* C21, witness: a malformed line that names endpoint 1 is followed by an
\* entry for endpoint 7 and one for endpoint 1; both are applied, and an id
\* in neither table gets the overlaid entry of endpoint 1.
C21_Witness ==
  /\ ret.op = "load_official_config" /\ Len(ret.file) = 3
  /\ ret.file[1].kind = "text" /\ ret.file[2].kind = "entry" /\ ret.file[3].kind = "entry"
  /\ ret.file[2].id = 7 /\ ret.file[3].id = 1
  /\ lookup_dc(ret.telegram_dcs, 7) = <<ret.file[2].host, 8888>>
  /\ lookup_dc(ret.telegram_dcs, 6) = <<ret.file[3].host, 8888>>

\* C22: cleanup_old_clients(max_age) removes exactly the client records whose
\* last_seen lies more than max_age in the past, returns the number it
\* removed, and leaves every younger record, the deny-list and the
\* allow-list, the live sessions and the statistics unchanged.
C22_CleanupExact ==
  [][ret'.op = "cleanup_old_clients"
       => /\ \A ip \in IPs :
               clients'[ip] =
                 IF clients[ip] # NoClient /\ clients[ip].last_seen + ret'.max_age < now
                 THEN NoClient ELSE clients[ip]
          /\ ret'.value = Cardinality({ip \in IPs : clients[ip] # NoClient
                                                    /\ clients'[ip] = NoClient})
          /\ UNCHANGED <<blocked_ips, allowed_ips, active_connections, connections,
                         stats, task, cli, tg, pump>>]_vars

\* C22, witness: a cleanup has removed the record of one address, which still
\* has a live session, and kept the record of another address that was last
\* seen exactly max_age ago.
C22_Witness ==
  /\ ret.op = "cleanup_old_clients" /\ ret.value = 1
  /\ \E ip, other \in IPs :
       /\ clients[ip] = NoClient
       /\ \E c \in DOMAIN active_connections : task[c].ip = ip
       /\ clients[other] # NoClient /\ now - clients[other].last_seen = ret.max_age

\* C23: a reload replaces the proxy secret as a whole: every handshake that
\* starts after reload_config has completed derives its response and its
\* session keys from the reloaded secret, the secret of the configuration.
C23_Original ==
  [][(ret'.op = "handshake" /\ ret'.accepted) => ret'.secret = ServerConfig.secret]_vars

\* Block i of a byte string.
BlockOf(data, i) == SubSeq(data, (i - 1) * 16 + 1, i * 16)

\* C24: for a key of at least 32 bytes, an iv of at least 32 bytes and data
\* whose length is a multiple of 16, decrypt_aes_ige(encrypt_aes_ige(data))
\* is data, the ciphertext is as long as data, and every block follows
\* C_i = E(P_i xor iv1) xor iv2, with iv1 the block C_(i-1) (the first half of
\* the iv for the first block) and iv2 the block P_(i-1) (the second half).
C24_IgeRoundTrip ==
  (/\ ret.op = "aes_ige"
   /\ Len(ret.key) >= 32 /\ Len(ret.iv) >= 32 /\ Len(ret.data) % 16 = 0)
    => /\ ret.encrypted.ok /\ ret.decrypted.ok
       /\ Len(ret.encrypted.value) = Len(ret.data)
       /\ ret.decrypted.value = ret.data
       /\ \A i \in 1..(Len(ret.data) \div 16) :
            LET P == BlockOf(ret.data, i)
                iv1 == IF i = 1 THEN SubSeq(ret.iv, 1, 16)
                       ELSE BlockOf(ret.encrypted.value, i - 1)
                iv2 == IF i = 1 THEN SubSeq(ret.iv, 17, 32) ELSE BlockOf(ret.data, i - 1)
            IN BlockOf(ret.encrypted.value, i)
                 = xor(aes_encrypt(SubSeq(ret.key, 1, 32), xor(P, iv1)), iv2)

\* C24, witness: two different blocks were encrypted with a key and an iv of
\* more than 32 bytes and decrypted again.
C24_Witness ==
  /\ ret.op = "aes_ige" /\ Len(ret.key) > 32 /\ Len(ret.iv) > 32
  /\ Len(ret.data) = 32 /\ BlockOf(ret.data, 1) # BlockOf(ret.data, 2)
  /\ ret.decrypted.value = ret.data /\ ret.encrypted.value # ret.data

\* C25: for a 32-byte key, a 16-byte iv and data of any length (empty and not
\* a multiple of 16 included), decrypt_aes_ctr(encrypt_aes_ctr(data)) is data
\* and the ciphertext is as long as data.
C25_CtrRoundTrip ==
  (ret.op = "aes_ctr" /\ Len(ret.key) = 32 /\ Len(ret.iv) = 16)
    => /\ ret.encrypted.ok /\ ret.decrypted.ok
       /\ Len(ret.encrypted.value) = Len(ret.data)
       /\ ret.decrypted.value = ret.data

\* C25, witness: 17 bytes, more than one keystream block, went through the
\* cipher and back with a counter that carries.
C25_Witness ==
  /\ ret.op = "aes_ctr" /\ Len(ret.key) = 32 /\ Len(ret.iv) = 16 /\ ret.iv[16] = 255
  /\ Len(ret.data) = 17 /\ ret.encrypted.value # ret.data
  /\ ret.decrypted.value = ret.data

\* C26: a crypto operation given malformed lengths fails with CryptoError and
\* returns nothing: encrypt_aes_ige and decrypt_aes_ige when the data length
\* is not a multiple of 16 or the key or the iv is shorter than 32 bytes,
\* create_auth_key when a nonce is not exactly 16 bytes.
C26_MalformedLengthsFail ==
  /\ (/\ ret.op = "aes_ige"
      /\ (Len(ret.data) % 16 # 0 \/ Len(ret.key) < 32 \/ Len(ret.iv) < 32))
       => (ret.encrypted = CryptoError /\ ret.decrypted_data = CryptoError)
  /\ (/\ ret.op = "create_auth_key"
      /\ (Len(ret.client_nonce) # 16 \/ ret.server_nonce # 16))
       => ret.auth_key = 0

\* C26, witness: create_auth_key was given a 16-byte client nonce and a
\* 17-byte server nonce and raised CryptoError.
C26_Witness ==
  /\ ret.op = "create_auth_key" /\ Len(ret.client_nonce) = 16 /\ ret.server_nonce = 17
  /\ ret.auth_key = 0

\* C28: pad_data(data, 16) returns a buffer whose length is a multiple of 16
\* and exceeds len(data) by at least 1 and at most 16, and whose first
\* len(data) bytes are data; unpad_data of it with len(data) is data.
C28_PadData ==
  ret.op = "pad_data"
    => /\ Len(ret.padded) % 16 = 0
       /\ Len(ret.padded) - Len(ret.data) \in 1..16
       /\ SubSeq(ret.padded, 1, Len(ret.data)) = ret.data
       /\ ret.unpadded = ret.data

\* C28, witness: data that fills its last block got a whole block of padding
\* and was recovered.
C28_Witness ==
  /\ ret.op = "pad_data" /\ Len(ret.data) = 16 /\ Len(ret.padded) = 32
  /\ ret.unpadded = ret.data

\* A string of exactly 32 hexadecimal characters.
Is32Hex(s) == s # None /\ Len(s) = 32 /\ \A i \in 1..Len(s) : IsHex(s[i])

\* C27, as stated: MTProtoCrypto(secret) succeeds exactly when secret is 32
\* hexadecimal characters and raises CryptoError for every other string.
C27_Original ==
  (ret.op = "secret" /\ ret.secret # None)
    => ret.MTProtoCrypto = (IF Is32Hex(ret.secret) THEN "ok" ELSE "CryptoError")

\* C29, as stated: validate_proxy_secret accepts exactly the strings of 32
\* hexadecimal characters; what it accepts initializes MTProtoCrypto, and what
\* it rejects is rejected by MTProtoCrypto and by utils.validate_secret.
C29_Original ==
  ret.op = "secret"
    => /\ ret.validate_proxy_secret = Is32Hex(ret.secret)
       /\ ret.validate_proxy_secret => ret.MTProtoCrypto = "ok"
       /\ ~ret.validate_proxy_secret
            => (ret.MTProtoCrypto # "ok" /\ ~ret.validate_secret)

\* C30, as stated: after Config.reload() the value of every key is the one
\* the file holds, or the built-in default when the file does not hold the
\* key; a change made with set() and not saved is gone.  (No environment
\* variable is set; a secret that is in neither is generated, and is left
\* out.)
C30_Original ==
  ret.op = "reload"
    => \A k \in ServerKeys :
         /\ k \in DOMAIN ret.file => ServerConfig[k] = ret.file[k]
         /\ (k \notin DOMAIN ret.file /\ k # "secret") => ServerConfig[k] = BuiltinServer[k]

\* C31, as stated: a Config constructed for a path with no file, no
\* environment variable set, reports the built-in defaults whatever set()
\* calls and loads other Config objects of the process performed.  (The
\* secret, which is generated, is left out.)
C31_Original ==
  ret.op = "Config"
    => \A k \in ServerKeys \ {"secret"} : ret.server[k] = BuiltinServer[k]

\* The verdict the stated order of checks gives a connection from ip:
\* deny-list, allow-list, blocked flag, per-IP cap, window limit.
FirstFailing(ip) ==
  IF ip \in blocked_ips THEN "deny"
  ELSE IF allowed_ips # {} /\ ip \notin allowed_ips THEN "whitelist"
  ELSE IF clients[ip] # NoClient /\ clients[ip].blocked THEN "flag"
  ELSE IF ClientConnections(ip) >= MaxConnectionsPerIp THEN "cap"
  ELSE IF /\ clients[ip] # NoClient
          /\ now - clients[ip].connect_time < Window
          /\ clients[ip].connection_count >= RateLimit THEN "rate"
  ELSE "admit"

\* C32: the admission checks are applied in the order deny-list, allow-list,
\* blocked flag, per-IP cap, window limit, and the first one that fails ends
\* the admission: a rejection by one of the first four changes neither the
\* deny-list nor any client record, and only the window-limit rejection adds
\* the address to the deny-list.
C32_AdmissionOrder ==
  [][\A c \in Conns :
       (task[c].pc = "idle" /\ task'[c].pc # "idle")
         => LET ip == task'[c].ip
                verdict == task'[c].verdict
            IN /\ verdict = FirstFailing(ip)
               /\ verdict \in {"deny", "whitelist", "flag", "cap"}
                    => (blocked_ips' = blocked_ips /\ clients' = clients)
               /\ verdict = "rate" => blocked_ips' = blocked_ips \cup {ip}
               /\ blocked_ips' # blocked_ips => verdict = "rate"]_vars

\* C32, witness: a connection was rejected by the per-IP cap while the window
\* of its address was full as well, and the address is not deny-listed.
C32_Witness ==
  \E c \in Conns :
    /\ task[c].verdict = "cap" /\ task[c].pc = "rej_closing"
    /\ task[c].ip \notin blocked_ips
    /\ clients[task[c].ip] # NoClient
    /\ clients[task[c].ip].connection_count >= RateLimit
    /\ now - clients[task[c].ip].connect_time < Window

\* The connections whose handle_client starts in this step.
Arriving == {c \in AllConns : task[c].pc = "idle" /\ task'[c].pc # "idle"}

\* C33: the mutations of the client table are serialized.  A step that
\* changes the table is either one whole sweep, after which no record older
\* than its max_age is left, or the whole admission of one connection, whose
\* checks and whose record update see the same table (the verdict is the one
\* the table before the step gives, and the record of an admitted connection
\* is written in that very step); and the sweep is never kept waiting: it
\* can run in every state.
C33_Serialized ==
  /\ [](ENABLED (\E max_age \in MaxAges : cleanup_old_clients(max_age)))
  /\ [][/\ clients' # clients
             => \/ /\ ret'.op = "cleanup_old_clients" /\ Arriving = {}
                   /\ \A ip \in IPs : clients'[ip] # NoClient
                        => now - clients'[ip].last_seen <= ret'.max_age
                \/ /\ ret'.op # "cleanup_old_clients"
                   /\ Cardinality(Arriving) = 1
        /\ \A c \in Arriving :
             /\ task'[c].verdict = FirstFailing(task'[c].ip)
             /\ task'[c].verdict = "admit"
                  => /\ clients'[task'[c].ip] # NoClient
                     /\ clients'[task'[c].ip].last_seen = now
                     /\ \A ip \in IPs \ {task'[c].ip} : clients'[ip] = clients[ip]]_vars

\* C33, witness: a sweep has removed a record while the handle_client of a
\* rejected connection was suspended in the close of its socket.
C33_Witness ==
  /\ ret.op = "cleanup_old_clients" /\ ret.value >= 1
  /\ \E c \in Sessions : task[c].pc = "rej_closing"

\* The handle_client invocations that have started and not returned.
InProgress == {c \in AllConns : task[c].pc \notin {"idle", "done"}}

\* C34, as stated: blocked_connections <= total_connections, the number of
\* entries of active_connections is at most stats['active_connections'], and
\* stats['active_connections'] is the number of handle_client invocations in
\* progress.
C34_Original ==
  /\ stats.blocked_connections <= stats.total_connections
  /\ Cardinality(DOMAIN active_connections) <= stats.active_connections
  /\ stats.active_connections = Cardinality(InProgress)

\* The invocations in progress that read a peer address, and so were counted.
Counted == {c \in InProgress : task[c].pc # "nopeer_closing"}

\* C34: the statistics are consistent in every reachable state:
\* total_connections and blocked_connections never decrease,
\* blocked_connections <= total_connections, and the number of entries of
\* active_connections is at most stats['active_connections'], which is the
\* number of handle_client invocations in progress that read a peer address
\* (0 when there is none); an invocation that could not read one is in
\* progress without being counted.
C34_StatsConsistent ==
  /\ [](/\ stats.blocked_connections <= stats.total_connections
        /\ 0 <= Cardinality(DOMAIN active_connections)
        /\ Cardinality(DOMAIN active_connections) <= stats.active_connections
        /\ stats.active_connections = Cardinality(Counted))
  /\ [][/\ stats'.total_connections >= stats.total_connections
        /\ stats'.blocked_connections >= stats.blocked_connections]_vars

\* C34, witness: two connections have come and gone, one of them rejected,
\* a third one without a peer address is being closed, and nothing is
\* counted as active.
C34_Witness ==
  /\ stats.total_connections = 2 /\ stats.blocked_connections = 1
  /\ stats.active_connections = 0 /\ Counted = {}
  /\ \E c \in Conns : task[c].verdict = "admit" /\ task[c].pc = "done"
  /\ \E c \in Conns : task[c].pc = "nopeer_closing"

\* C35: in every reachable state every client record whose blocked flag is
\* set belongs to an address of the deny-list, whatever admissions,
\* rate-limit blocks, unblock_client calls and sweeps have happened.
C35_FlagImpliesDenyListed ==
  \A ip \in IPs : (clients[ip] # NoClient /\ clients[ip].blocked) => ip \in blocked_ips

\* C35, witness: the rate limit has blocked an address after the clock has
\* advanced: its record is flagged and the address is deny-listed.
C35_Witness ==
  /\ clients["ip1"] # NoClient /\ clients["ip1"].blocked
  /\ clients["ip1"].block_reason = "Rate limit exceeded"
  /\ "ip1" \in blocked_ips /\ now > 0
  /\ \E c \in Conns : task[c].verdict = "rate"

\* C36, as stated: in every reachable state the connection_count of every
\* client record is at least 1 and at most rate_limit.
C36_Original ==
  \A ip \in IPs :
    clients[ip] # NoClient
      => (1 <= clients[ip].connection_count /\ clients[ip].connection_count <= RateLimit)

\* C37: an address on the deny-list stays there until unblock_client is
\* called for it, and every connection that arrives from it meanwhile is
\* rejected: neither the clock nor the sweep, which deletes its record, lifts
\* the block the rate limit has set.
C37_BlockLasts ==
  [][\A ip \in blocked_ips :
       /\ ip \in blocked_ips' \/ (ret'.op = "unblock_client" /\ ret'.ip = ip)
       /\ \A c \in Arriving :
            task'[c].ip = ip
              => /\ task'[c].pc = "rej_closing" /\ task'[c].verdict = "deny"
                 /\ c \notin DOMAIN active_connections']_vars

\* C37, witness: the rate limit has blocked an address, its window is over,
\* the sweep has deleted its record, and a later connection from it is
\* rejected by the deny-list.
C37_Witness ==
  /\ "ip1" \in blocked_ips /\ clients["ip1"] = NoClient
  /\ \E c, d \in BlockConns :
       /\ c < d /\ task[c].verdict = "rate" /\ task[d].verdict = "deny"
       /\ task[d].pc = "rej_closing"
       /\ \E a \in BlockConns : a < c /\ task[a].verdict = "admit" /\ now - task[a].win >= Window

\* C38, as stated: a connection from an address that the rate limit had
\* deny-listed and unblock_client has taken off the list again (its record
\* is still there, the address is below the per-IP cap) is rejected and the
\* address deny-listed again if it arrives less than 60 seconds after the
\* first connection of the record's window; if it arrives 60 seconds after
\* it or later, it is admitted and starts a new window with count 1.
C38_Original ==
  [][\A c \in Arriving :
       LET ip == task'[c].ip
       IN (/\ \E d \in BlockConns : task[d].verdict = "rate" /\ task[d].ip = ip
           /\ ip \notin blocked_ips
           /\ clients[ip] # NoClient
           /\ ClientConnections(ip) < MaxConnectionsPerIp)
            => IF now - clients[ip].connect_time < Window
               THEN /\ task'[c].pc = "rej_closing"
                    /\ ip \in blocked_ips'
               ELSE /\ task'[c].verdict = "admit"
                    /\ clients'[ip].connect_time = now
                    /\ clients'[ip].connection_count = 1]_vars

\* C39: restart() on a running server leads to a running server: stop() runs
\* to completion and then start() is reached and the server listens again
\* with running = True; start() on a running server and stop() on a stopped
\* server change nothing.
C39_Original ==
  /\ (ret = [op |-> "restart", was |-> "running"]) ~> (server = "running")
  /\ [][/\ ret' = [op |-> "start", value |-> "already running"] => UNCHANGED server
        /\ ret' = [op |-> "stop", value |-> "not running"] => UNCHANGED server]_vars

\* C40: the running server's admission policy uses the configured security
\* settings: every address of security.banned_ips is in the handler's
\* deny-list and is rejected, a non-empty security.allowed_ips is the
\* handler's allow-list, and security.rate_limit is the window limit the
\* handler applies (an open window never holds more admissions than it).
C40_Original ==
  /\ config.security.banned_ips \subseteq blocked_ips
  /\ \A c \in Conns : task[c].verdict = "admit" => task[c].ip \notin config.security.banned_ips
  /\ config.security.allowed_ips # {} => allowed_ips = config.security.allowed_ips
  /\ \A ip \in IPs :
       (clients[ip] # NoClient /\ now - clients[ip].connect_time < 60)
         => clients[ip].connection_count <= config.security.rate_limit

====
